---- MODULE Spec2Model ----
(***************************************************************************)
(* Model of the stake-weighted permission tree and dual-audit engine of    *)
(* crates/gently-spl (permissions.rs, with the ledger of token.rs) and of   *)
(* its governance system (governance.rs).                                  *)
(*                                                                         *)
(* Paths are sequences of segments: << >> is "/", <<"a">> is "/a",         *)
(* <<"a","x">> is "/a/x".  f64 stake fractions are exact rationals         *)
(* [n, d] in lowest terms; `as u64` is truncation.  Token amounts are      *)
(* lamports with ModelDecimals decimals (the program has 9, which does not *)
(* fit TLC's 32-bit integers).  Timestamps (now()) are left out.           *)
(*                                                                         *)
(* result is the last operation called and what it returned; calls counts  *)
(* the successful add_node, edit, record_dance and airdrop calls so far.   *)
(* gov_result and gov_calls do the same for the governance system, and     *)
(* created_frozen keeps the paths whose folder was frozen when first made. *)
(***************************************************************************)
EXTENDS Integers, Sequences, FiniteSets, TLC

VARIABLES nodes, total_stake, root_owner, internal_audits, external_audits,
          accounts, audits, result, calls,
          root_wallet, developer_wallet, admin_wallet, folders, users,
          audit_log, next_audit_id, gov_result, gov_calls, created_frozen,
          folder_wallets, install_total_stake, initialized, install_result,
          guard, pc, local, observation,
          lock_state, collection, bridge_result

\* the PermissionManager and its ledger
permVars == <<nodes, total_stake, root_owner, internal_audits, external_audits,
              accounts, audits, result, calls>>

\* the GovernanceSystem
govVars == <<root_wallet, developer_wallet, admin_wallet, folders, users,
             audit_log, next_audit_id, gov_result, gov_calls, created_frozen>>

\* the GentlyInstall
fsVars == <<folder_wallets, install_total_stake, initialized, install_result>>

\* DEMO_PERMISSIONS and the callers of with_demo_permissions
lockVars == <<guard, pc, local, observation>>

\* the SplBridge
bridgeVars == <<lock_state, collection, bridge_result>>

vars == <<permVars, govVars, fsVars, lockVars, bridgeVars>>

(* ------------------------------ bounds --------------------------------- *)

\* decimals of a token amount in the model (token.rs DECIMALS is 9)
ModelDecimals == 2
\* add_node calls in one behaviour
MaxAdds == 3
\* add_path calls of the manager's callers in one behaviour
MaxManagerAdds == 2
\* audits of each kind in one behaviour
MaxAudits == 2
\* airdrops by the host in one behaviour
MaxAirdrops == 1
\* transfer, burn and stake calls in one behaviour
MaxTokenCalls == 3
\* NFTs minted through the bridge in one behaviour
MaxMints == 3
\* state-changing calls of the governance system in one behaviour
MaxGovCalls == 3
Identities == {"root", "alice"}
Peers == {"peer_device"}
InitialStakeGntly == {1, 100}

Root == << >>

\* "/", "/a", "/b", "/a/a", "/a/b", "/b/a"
Paths == {Root, <<"a">>, <<"b">>, <<"a", "a">>, <<"a", "b">>, <<"b", "a">>}
\* the paths the manager's callers add
ManagerPaths == {<<"a">>, <<"a", "b">>, <<"b", "a">>}

Range(s) == {s[i] : i \in 1..Len(s)}

(* --------------------------- exact fractions --------------------------- *)

RECURSIVE GCD(_, _)
GCD(a, b) == IF b = 0 THEN a ELSE GCD(b, a % b)

Rat(n, d) == LET g == GCD(n, d) IN [n |-> n \div g, d |-> d \div g]

RatSub(a, b) == Rat(a.n * b.d - b.n * a.d, a.d * b.d)
RatAdd(a, b) == Rat(a.n * b.d + b.n * a.d, a.d * b.d)
RatDiv(a, b) == Rat(a.n * b.d, a.d * b.n)
RatDivInt(a, k) == Rat(a.n, a.d * k)
RatMul(a, b) == Rat(a.n * b.n, a.d * b.d)
RatLess(a, b) == a.n * b.d < b.n * a.d
RatLeq(a, b) == a.n * b.d <= b.n * a.d
RatZero == [n |-> 0, d |-> 1]
RatOne == [n |-> 1, d |-> 1]

\* (x as f64 * r) as u64
TruncMul(x, r) == (x * r.n) \div r.d

RECURSIVE RatSum(_)
RatSum(s) == IF s = << >> THEN RatZero ELSE RatAdd(Head(s), RatSum(Tail(s)))

(* ------------------------------ token.rs ------------------------------- *)

RECURSIVE Pow10(_)
Pow10(k) == IF k = 0 THEN 1 ELSE 10 * Pow10(k - 1)

from_gntly(amount) == amount * Pow10(ModelDecimals)

balance(accts, wallet_pubkey) ==
    IF wallet_pubkey \in DOMAIN accts THEN accts[wallet_pubkey] ELSE 0

\* u64::MAX, the largest TokenAmount; the model's word is 31 bits wide
U64_MAX == 2147483647

\* TokenAmount::add: u64::saturating_add
saturating_add(a, b) == IF a > U64_MAX - b THEN U64_MAX ELSE a + b

\* TokenAmount::sub: u64::saturating_sub
saturating_sub(a, b) == IF b > a THEN 0 ELSE a - b

\* get_or_create_account followed by credit
credit(accts, wallet_pubkey, amount) ==
    [w \in DOMAIN accts \cup {wallet_pubkey} |->
        IF w = wallet_pubkey THEN saturating_add(balance(accts, w), amount)
        ELSE balance(accts, w)]

\* accounts.get_mut(wallet) followed by TokenAccount::debit
debit(accts, wallet_pubkey, amount, missing) ==
    IF wallet_pubkey \notin DOMAIN accts
    THEN [ok |-> FALSE, err |-> missing, accounts |-> accts]
    ELSE IF ~(accts[wallet_pubkey] >= amount)
    THEN [ok |-> FALSE, err |-> "Insufficient balance", accounts |-> accts]
    ELSE [ok |-> TRUE, err |-> "",
          accounts |-> [accts EXCEPT ![wallet_pubkey] =
                            saturating_sub(@, amount)]]

burn(accts, wallet_pubkey, amount) ==
    debit(accts, wallet_pubkey, amount, "Account not found")

stake(accts, wallet_pubkey, amount) ==
    debit(accts, wallet_pubkey, amount, "Account not found")

airdrop(accts, wallet_pubkey, amount) == credit(accts, wallet_pubkey, amount)

transfer(accts, from_pubkey, to_pubkey, amount) ==
    LET debited == debit(accts, from_pubkey, amount,
                         "Sender account not found")
    IN  IF ~debited.ok THEN debited
        ELSE [ok |-> TRUE, err |-> "",
              accounts |-> credit(debited.accounts, to_pubkey, amount)]

(* --------------------------- permissions.rs ---------------------------- *)

ROOT_STAKE_PERCENT == Rat(51, 100)
AUDIT_SWAP_AMOUNT == from_gntly(1)

new_root(owner, total) ==
    [path |-> Root, is_dir |-> TRUE,
     stake_percent |-> ROOT_STAKE_PERCENT,
     stake_tokens |-> TruncMul(total, ROOT_STAKE_PERCENT),
     owner |-> owner, children |-> << >>, parent |-> {},
     generation |-> 0, edit_count |-> 0]

available_percent(parent) ==
    IF parent.generation = 0 THEN RatSub(RatOne, ROOT_STAKE_PERCENT)
    ELSE parent.stake_percent

new_child(path, is_dir, parent, sibling_count, owner) ==
    LET stake_percent == RatDivInt(available_percent(parent), sibling_count + 1)
    IN  [path |-> path, is_dir |-> is_dir,
         stake_percent |-> stake_percent,
         stake_tokens |-> TruncMul(parent.stake_tokens,
                                   RatDiv(stake_percent, parent.stake_percent)),
         owner |-> owner, children |-> << >>, parent |-> {parent.path},
         generation |-> parent.generation + 1, edit_count |-> 0]

\* mutant: the boundary is exclusive
can_edit_strict(node, holder_stake) == holder_stake > node.stake_tokens

can_edit(node, holder_stake) == holder_stake >= node.stake_tokens

parent_path(path) ==
    IF path = Root THEN Root
    ELSE IF Len(path) + 1 <= 2 THEN Root
    ELSE SubSeq(path, 1, Len(path) - 1)

\* HashMap::get
find_node(ns, path) == IF path \in DOMAIN ns THEN {ns[path]} ELSE {}

The(s) == CHOOSE x \in s : TRUE

\* mutant: each child keeps a fraction of the share it already has
recalculate_siblings_of_own_share(ns, pp, total) ==
    LET parent == ns[pp]
        child_count == Len(parent.children) + 1
    IN  [p \in DOMAIN ns |->
            IF p \in Range(parent.children)
            THEN [ns[p] EXCEPT
                    !.stake_percent = RatDivInt(ns[p].stake_percent, child_count),
                    !.stake_tokens = TruncMul(total, RatDivInt(ns[p].stake_percent, child_count))]
            ELSE ns[p]]

recalculate_siblings(ns, pp, total) ==
    LET parent == ns[pp]
        child_count == Len(parent.children) + 1
        stake_per_child == RatDivInt(available_percent(parent), child_count)
        tokens_per_child == TruncMul(total, stake_per_child)
    IN  [p \in DOMAIN ns |->
            IF p \in Range(parent.children)
            THEN [ns[p] EXCEPT !.stake_percent = stake_per_child,
                               !.stake_tokens = tokens_per_child]
            ELSE ns[p]]

\* add_node once the parent is found
add_node(ns, path, is_dir, owner, total) ==
    LET pp == parent_path(path)
        parent == ns[pp]
        sibling_count == Len(parent.children)
        node == new_child(path, is_dir, parent, sibling_count, owner)
        pushed == [ns EXCEPT ![pp].children = Append(@, path)]
        recalculated == recalculate_siblings(pushed, pp, total)
    IN  [p \in DOMAIN ns \cup {path} |-> IF p = path THEN node ELSE recalculated[p]]

\* mutant: the amount is split among the children only
calculate_redistribution_among_children(ns, path) ==
    LET node == ns[path]
        share_each == node.stake_tokens \div Len(node.children)
    IN  [source_path |-> path, original_stake |-> node.stake_tokens,
         new_distribution |->
            <<  <<path, share_each>> >> \o
            [i \in 1..Len(node.children) |-> <<node.children[i], share_each>>]]

calculate_redistribution(ns, path) ==
    LET node == ns[path]
        share_each == node.stake_tokens \div (Len(node.children) + 1)
    IN  [source_path |-> path, original_stake |-> node.stake_tokens,
         new_distribution |->
            <<  <<path, share_each>> >> \o
            [i \in 1..Len(node.children) |-> <<node.children[i], share_each>>]]

validate_edit(ns, path, editor_stake) ==
    LET found == find_node(ns, path) IN
    IF found = {}
    THEN [ok |-> FALSE, err |-> "TokenError: Path not found", validation |-> {}]
    ELSE LET node == The(found) IN
         IF ~can_edit(node, editor_stake)
         THEN [ok |-> TRUE, err |-> "",
               validation |-> {[allowed |-> FALSE, path |-> path,
                                required_stake |-> node.stake_tokens,
                                editor_stake |-> editor_stake,
                                stake_redistribution |-> {}]}]
         ELSE [ok |-> TRUE, err |-> "",
               validation |-> {[allowed |-> TRUE, path |-> path,
                                required_stake |-> node.stake_tokens,
                                editor_stake |-> editor_stake,
                                stake_redistribution |->
                                    IF node.is_dir /\ node.children # << >>
                                    THEN {calculate_redistribution(ns, path)}
                                    ELSE {}]}]

\* mutant: the counter is raised before the node is looked up
record_edit_counts_first(ns, internal, path, editor) ==
    IF find_node(ns, path) = {}
    THEN [ok |-> FALSE, err |-> "TokenError: Node not found",
          nodes |-> ns, internal_audits |-> internal + 1, audit |-> {}]
    ELSE [ok |-> TRUE, err |-> "",
          nodes |-> [ns EXCEPT ![path].edit_count = @ + 1],
          internal_audits |-> internal + 1,
          audit |-> {[audit_type |-> "Internal", path |-> path, editor |-> editor,
                      audit_number |-> internal + 1,
                      swap_amount |-> AUDIT_SWAP_AMOUNT]}]

\* mutant: the edit stores the previewed share of the edited node
record_edit_applying_preview(ns, internal, path, editor) ==
    IF find_node(ns, path) = {}
    THEN [ok |-> FALSE, err |-> "TokenError: Node not found",
          nodes |-> ns, internal_audits |-> internal, audit |-> {}]
    ELSE [ok |-> TRUE, err |-> "",
          nodes |-> [ns EXCEPT ![path].edit_count = @ + 1,
                               ![path].stake_tokens =
                                    @ \div (Len(ns[path].children) + 1)],
          internal_audits |-> internal + 1,
          audit |-> {[audit_type |-> "Internal", path |-> path, editor |-> editor,
                      audit_number |-> internal + 1,
                      swap_amount |-> AUDIT_SWAP_AMOUNT]}]

\* mutant: the edit is counted on every node
record_edit_every_node(ns, internal, path, editor) ==
    IF find_node(ns, path) = {}
    THEN [ok |-> FALSE, err |-> "TokenError: Node not found",
          nodes |-> ns, internal_audits |-> internal, audit |-> {}]
    ELSE [ok |-> TRUE, err |-> "",
          nodes |-> [p \in DOMAIN ns |-> [ns[p] EXCEPT !.edit_count = @ + 1]],
          internal_audits |-> internal + 1,
          audit |-> {[audit_type |-> "Internal", path |-> path, editor |-> editor,
                      audit_number |-> internal + 1,
                      swap_amount |-> AUDIT_SWAP_AMOUNT]}]

\* record_edit: the new node map, the new counter and the record
record_edit(ns, internal, path, editor) ==
    IF find_node(ns, path) = {}
    THEN [ok |-> FALSE, err |-> "TokenError: Node not found",
          nodes |-> ns, internal_audits |-> internal, audit |-> {}]
    ELSE [ok |-> TRUE, err |-> "",
          nodes |-> [ns EXCEPT ![path].edit_count = @ + 1],
          internal_audits |-> internal + 1,
          audit |-> {[audit_type |-> "Internal", path |-> path, editor |-> editor,
                      audit_number |-> internal + 1,
                      swap_amount |-> AUDIT_SWAP_AMOUNT]}]

\* mutant: the record is tied to a path named after the peer
record_external_audit_at_peer(external, peer) ==
    [external_audits |-> external + 1,
     audit |-> [audit_type |-> "External", path |-> <<peer>>, editor |-> peer,
                audit_number |-> external + 1,
                swap_amount |-> AUDIT_SWAP_AMOUNT]]

\* mutant: the record is numbered before the counter is raised
record_external_audit_stale(external, peer) ==
    [external_audits |-> external + 1,
     audit |-> [audit_type |-> "External", path |-> Root, editor |-> peer,
                audit_number |-> external,
                swap_amount |-> AUDIT_SWAP_AMOUNT]]

record_external_audit(external, peer) ==
    [external_audits |-> external + 1,
     audit |-> [audit_type |-> "External", path |-> Root, editor |-> peer,
                audit_number |-> external + 1,
                swap_amount |-> AUDIT_SWAP_AMOUNT]]

\* mutant: more external audits than internal ones also count as balanced
is_balanced_atleast == internal_audits <= external_audits

is_balanced == internal_audits = external_audits

health_check ==
    [internal_audits |-> internal_audits, external_audits |-> external_audits,
     balanced |-> is_balanced, total_nodes |-> Cardinality(DOMAIN nodes),
     total_stake |-> total_stake]

\* mutant: the early return is missing
edit_rejected_never(validation) == FALSE

\* mutant: an edit is also turned away while the audits are unbalanced
edit_rejected_unbalanced(validation) == ~validation.allowed \/ ~is_balanced

\* the early return of PermissionManager::edit
edit_rejected(validation) == ~validation.allowed

(* ---------------------------- governance.rs ---------------------------- *)

\* A governance path is the string itself, as a sequence of tokens: "/" and
\* the names between the slashes.  <<"/">> is "/", <<"/", "var", "/", "log">>
\* is "/var/log", <<"/", "var", "/">> is "/var/".

ROOT_TOKEN_AMOUNT == 101010
ADMIN_TOKEN_COUNT == 10

\* GovernanceLevel; Level_Root is GovernanceLevel::Root
Level_Root == 0
Developer == 1
Admin == 2
System == 3
Service == 4
User == 5
Guest == 6

GovernanceLevel == {Level_Root, Developer, Admin, System, Service, User, Guest}

gradient_multiplier(level) ==
    CASE level = Level_Root -> Rat(1, 1)
      [] level = Developer -> Rat(9, 10)
      [] level = Admin -> Rat(7, 10)
      [] level = System -> Rat(5, 10)
      [] level = Service -> Rat(3, 10)
      [] level = User -> Rat(1, 10)
      [] level = Guest -> Rat(1, 100)

\* mutant: User wallets may accumulate
can_accumulate_user(level) ==
    CASE level \in {Level_Root, Developer} -> FALSE
      [] level = Admin -> TRUE
      [] level \in {System, Service} -> TRUE
      [] level = User -> TRUE
      [] level = Guest -> FALSE

can_accumulate(level) ==
    CASE level \in {Level_Root, Developer} -> FALSE
      [] level = Admin -> TRUE
      [] level \in {System, Service} -> TRUE
      [] level \in {User, Guest} -> FALSE

can_distribute(level) ==
    CASE level = Level_Root -> FALSE
      [] level \in {Developer, Admin} -> TRUE
      [] level \in {System, Service} -> TRUE
      [] level \in {User, Guest} -> FALSE

can_receive(wallet) == ~wallet.frozen /\ can_accumulate(wallet.level)

can_send(wallet) ==
    ~wallet.frozen /\ wallet.balance > 0 /\ can_distribute(wallet.level)

\* SHA-256 is taken to be injective: an identifier is its preimage
derive_folder_id(path) == <<"folder-id:">> \o path
derive_wallet_pubkey(purpose) == <<"gov-wallet:">> \o purpose

\* TokenIdGenerator, with system_id "SYS", model "CLI" and unit_id "UNIT"
root_token == <<"GOS-ROOT-TOKEN">>
developer_wallet_id == <<"GOS-DEVELOPER-", "SYS">>
admin_token == <<"GOS-", "SYS", "-", "CLI", "-", "UNIT", "-ADMIN">>
folder_token(folder_id) == <<"GOS-", "SYS", "-", "CLI", "-", "UNIT", "-">> \o folder_id
user_token(user_id) == <<"GOS-USER-", user_id>>

RECURSIVE trim_end_matches(_)
trim_end_matches(path) ==
    IF path # << >> /\ path[Len(path)] = "/"
    THEN trim_end_matches(SubSeq(path, 1, Len(path) - 1))
    ELSE path

\* str::rfind('/'): the last position of a slash, counted from 0
rfind(s) ==
    LET at == {i \in 1..Len(s) : s[i] = "/"}
    IN  IF at = {} THEN {} ELSE {(CHOOSE i \in at : \A j \in at : j <= i) - 1}

\* governance.rs parent_path: None is {}
governance_parent_path(path) ==
    IF path = <<"/">> THEN {}
    ELSE LET trimmed == trim_end_matches(path)
             idx == rfind(trimmed)
         IN  IF idx = {} THEN {}
             ELSE IF idx = {0} THEN {<<"/">>}
             ELSE {SubSeq(trimmed, 1, The(idx))}

RECURSIVE walk_up(_, _)
walk_up(current, fs) ==
    LET parent == governance_parent_path(current) IN
    IF parent = {} THEN <<"/">>
    ELSE IF The(parent) \in DOMAIN fs THEN The(parent)
    ELSE walk_up(The(parent), fs)

find_parent_folder(path, fs) ==
    IF path \in DOMAIN fs THEN path ELSE walk_up(path, fs)

\* mutant: no folder is frozen at creation
GovernedFolder_new_unfrozen(path, level) ==
    [path |-> path,
     folder_id |-> derive_folder_id(path),
     wallet |-> [pubkey |-> derive_wallet_pubkey(<<"folder:">> \o path),
                 token_id |-> folder_token(derive_folder_id(path)),
                 level |-> level,
                 allocation |-> 1,
                 balance |-> 1,
                 frozen |-> FALSE,
                 path |-> {path},
                 file_size_weight |-> 0],
     parent |-> governance_parent_path(path),
     children |-> << >>,
     total_file_size |-> 0,
     file_count |-> 0]

\* GovernedFolder::new, for a folder of the given path and level
GovernedFolder_new(path, level) ==
    [path |-> path,
     folder_id |-> derive_folder_id(path),
     wallet |-> [pubkey |-> derive_wallet_pubkey(<<"folder:">> \o path),
                 token_id |-> folder_token(derive_folder_id(path)),
                 level |-> level,
                 allocation |-> 1,
                 balance |-> 1,
                 frozen |-> (level = Level_Root),
                 path |-> {path},
                 file_size_weight |-> 0],
     parent |-> governance_parent_path(path),
     children |-> << >>,
     total_file_size |-> 0,
     file_count |-> 0]

\* add_folder: the folder map after the insert and the push to the parent
add_folder(fs, path, level) ==
    LET inserted == [p \in DOMAIN fs \cup {path} |->
                        IF p = path THEN GovernedFolder_new(path, level) ELSE fs[p]]
        parent == governance_parent_path(path)
    IN  IF parent # {} /\ The(parent) \in DOMAIN inserted
        THEN [inserted EXCEPT ![The(parent)].children = Append(@, path)]
        ELSE inserted

default_folders ==
    << <<(<<"/">>), Admin>>,
       << <<"/", "bin">>, System>>,
       << <<"/", "etc">>, System>>,
       << <<"/", "home">>, User>>,
       << <<"/", "var">>, System>>,
       << <<"/", "var", "/", "log">>, System>>,
       << <<"/", "tmp">>, Guest>>,
       << <<"/", "gently">>, Developer>>,
       << <<"/", "gently", "/", "core">>, Level_Root>>,
       << <<"/", "gently", "/", "keys">>, Developer>>,
       << <<"/", "gently", "/", "audit">>, Admin>>,
       << <<"/", "gently", "/", "wallets">>, Admin>> >>

\* initialize_folders: add_folder for the first k entries of the table
RECURSIVE initialize_folders(_, _)
initialize_folders(fs, k) ==
    IF k = 0 THEN fs
    ELSE add_folder(initialize_folders(fs, k - 1),
                    default_folders[k][1], default_folders[k][2])

\* mutant: the allocation is taken with the Admin gradient
user_wallet_admin_gradient(user_id) ==
    LET base_allocation == ADMIN_TOKEN_COUNT
        user_allocation == TruncMul(base_allocation, gradient_multiplier(Admin))
    IN  [pubkey |-> derive_wallet_pubkey(<<"user:", user_id>>),
         token_id |-> user_token(user_id),
         level |-> User,
         allocation |-> user_allocation,
         balance |-> user_allocation,
         frozen |-> FALSE,
         path |-> {<<"/", "home", "/", user_id>>},
         file_size_weight |-> 0]

\* the wallet add_user builds
user_wallet(user_id) ==
    LET base_allocation == ADMIN_TOKEN_COUNT
        user_allocation == TruncMul(base_allocation, gradient_multiplier(User))
    IN  [pubkey |-> derive_wallet_pubkey(<<"user:", user_id>>),
         token_id |-> user_token(user_id),
         level |-> User,
         allocation |-> user_allocation,
         balance |-> user_allocation,
         frozen |-> FALSE,
         path |-> {<<"/", "home", "/", user_id>>},
         file_size_weight |-> 0]

\* on_file_operation: the error, or the audit record pushed to the log
\* mutant: the record takes the id after the next one
on_file_operation_skipping_id(fs, next_id, admin, path, operation) ==
    LET folder_path == find_parent_folder(path, fs) IN
    IF folder_path \notin DOMAIN fs
    THEN [ok |-> FALSE, err |-> "WalletError: Folder not found", audit |-> {}]
    ELSE IF fs[folder_path].wallet.frozen
    THEN [ok |-> FALSE, err |-> "NotAuthorized", audit |-> {}]
    ELSE [ok |-> TRUE, err |-> "",
          audit |-> {[id |-> next_id + 1,
                      from_wallet |-> fs[folder_path].wallet.pubkey,
                      to_wallet |-> admin.pubkey,
                      token_id |-> fs[folder_path].wallet.token_id,
                      amount |-> 1,
                      reason |-> operation,
                      file_operation |-> {[path |-> path,
                                           operation |-> "file_change",
                                           old_size |-> {}, new_size |-> {}]}]}]

on_file_operation(fs, next_id, admin, path, operation) ==
    LET folder_path == find_parent_folder(path, fs) IN
    IF folder_path \notin DOMAIN fs
    THEN [ok |-> FALSE, err |-> "WalletError: Folder not found", audit |-> {}]
    ELSE IF fs[folder_path].wallet.frozen
    THEN [ok |-> FALSE, err |-> "NotAuthorized", audit |-> {}]
    ELSE [ok |-> TRUE, err |-> "",
          audit |-> {[id |-> next_id,
                      from_wallet |-> fs[folder_path].wallet.pubkey,
                      to_wallet |-> admin.pubkey,
                      token_id |-> fs[folder_path].wallet.token_id,
                      amount |-> 1,
                      reason |-> operation,
                      file_operation |-> {[path |-> path,
                                           operation |-> "file_change",
                                           old_size |-> {}, new_size |-> {}]}]}]

\* mutant: the tier comparison is strict
can_operate_strict(fs, path, required_level) ==
    LET folder_path == find_parent_folder(path, fs) IN
    IF folder_path \in DOMAIN fs
    THEN IF fs[folder_path].wallet.frozen THEN FALSE
         ELSE fs[folder_path].wallet.level > required_level
    ELSE FALSE

can_operate(fs, path, required_level) ==
    LET folder_path == find_parent_folder(path, fs) IN
    IF folder_path \in DOMAIN fs
    THEN IF fs[folder_path].wallet.frozen THEN FALSE
         ELSE fs[folder_path].wallet.level >= required_level
    ELSE FALSE

\* the comparator of stake_report: a sorts before b
report_less(a, b) ==
    \/ a.generation < b.generation
    \/ /\ a.generation = b.generation
       /\ RatLess(b.stake_percent, a.stake_percent)

\* slice::sort_by is stable: an entry goes behind the entries that do not
\* sort after it
RECURSIVE sort_by(_)
sort_by(report) ==
    IF report = << >> THEN << >>
    ELSE LET sorted == sort_by(SubSeq(report, 1, Len(report) - 1))
             x == report[Len(report)]
             k == Cardinality({i \in 1..Len(sorted) : ~report_less(x, sorted[i])})
         IN  SubSeq(sorted, 1, k) \o <<x>> \o SubSeq(sorted, k + 1, Len(sorted))

\* stake_report; values is the order in which HashMap::values yields the nodes
stake_report(ns, values) ==
    sort_by([i \in 1..Len(values) |->
                [path |-> ns[values[i]].path,
                 stake_percent |-> ns[values[i]].stake_percent,
                 stake_tokens |-> ns[values[i]].stake_tokens,
                 generation |-> ns[values[i]].generation,
                 children |-> Len(ns[values[i]].children),
                 edit_count |-> ns[values[i]].edit_count]])

(* ------------------------------ filesystem.rs -------------------------- *)

\* OwnerType
OwnerType == {"System", "User", "Gently", "Ephemeral"}

DEFAULT_FOLDERS ==
    << [path |-> <<"/">>, owner_type |-> "System", locked |-> TRUE],
       [path |-> <<"/", "bin">>, owner_type |-> "System", locked |-> FALSE],
       [path |-> <<"/", "etc">>, owner_type |-> "System", locked |-> FALSE],
       [path |-> <<"/", "home">>, owner_type |-> "User", locked |-> FALSE],
       [path |-> <<"/", "var">>, owner_type |-> "System", locked |-> FALSE],
       [path |-> <<"/", "var", "/", "log">>, owner_type |-> "System", locked |-> FALSE],
       [path |-> <<"/", "tmp">>, owner_type |-> "Ephemeral", locked |-> FALSE],
       [path |-> <<"/", "gently">>, owner_type |-> "Gently", locked |-> TRUE],
       [path |-> <<"/", "gently", "/", "keys">>, owner_type |-> "Gently", locked |-> FALSE],
       [path |-> <<"/", "gently", "/", "nfts">>, owner_type |-> "Gently", locked |-> FALSE],
       [path |-> <<"/", "gently", "/", "audit">>, owner_type |-> "Gently", locked |-> FALSE],
       [path |-> <<"/", "gently", "/", "wallets">>, owner_type |-> "Gently", locked |-> FALSE] >>

ROOT_STAKE == Rat(51, 100)

\* TokenAmount::to_gntly
to_gntly(lamports) == Rat(lamports, Pow10(ModelDecimals))

\* TokenAmount::from_gntly of a fractional amount: (amount * 10^decimals) as u64
from_gntly_f64(amount) == TruncMul(Pow10(ModelDecimals), amount)

\* derive_folder_wallet(genesis, path).pubkey(): one key per derivation path
derive_folder_wallet(path) == <<"gently/folder">> \o path

\* the FolderWallet that initialize builds for one row of DEFAULT_FOLDERS
default_folder_wallet(row, total) ==
    LET remaining_stake == RatSub(RatOne, ROOT_STAKE)
        num_children == Len(DEFAULT_FOLDERS) - 1
        child_stake == RatDivInt(remaining_stake, num_children)
        stake_percent == IF row.path = <<"/">> THEN ROOT_STAKE ELSE child_stake
    IN  [path |-> row.path,
         wallet_pubkey |-> derive_folder_wallet(row.path),
         stake_percent |-> stake_percent,
         stake_tokens |-> from_gntly_f64(RatMul(to_gntly(total), stake_percent)),
         locked |-> row.locked,
         owner_type |-> row.owner_type]

\* the inserts of initialize, in the order of DEFAULT_FOLDERS
RECURSIVE initialize(_, _, _)
initialize(fw, total, k) ==
    IF k = 0 THEN fw
    ELSE LET before == initialize(fw, total, k - 1)
             row == DEFAULT_FOLDERS[k]
         IN  [p \in DOMAIN before \cup {row.path} |->
                 IF p = row.path THEN default_folder_wallet(row, total)
                 ELSE before[p]]

\* the FolderWallet that add_user_home builds
user_home_wallet(fw, total, path) ==
    LET home_stake == IF <<"/", "home">> \in DOMAIN fw
                      THEN fw[<<"/", "home">>].stake_percent
                      ELSE Rat(5, 100)
        user_stake == RatMul(home_stake, Rat(1, 10))
    IN  [path |-> path,
         wallet_pubkey |-> derive_folder_wallet(path),
         stake_percent |-> user_stake,
         stake_tokens |-> from_gntly_f64(RatMul(to_gntly(total), user_stake)),
         locked |-> FALSE,
         owner_type |-> "User"]

\* filesystem.rs parent_path: None is {}
filesystem_parent_path(path) ==
    IF path = <<"/">> THEN {}
    ELSE LET trimmed == trim_end_matches(path)
             idx == rfind(trimmed)
         IN  IF idx = {} THEN {}
             ELSE IF idx = {0} THEN {<<"/">>}
             ELSE {SubSeq(trimmed, 1, The(idx))}

\* the loop of find_owning_folder with its root fallback; None is {}
RECURSIVE walk_up_owning(_, _)
walk_up_owning(current, fw) ==
    LET parent == filesystem_parent_path(current) IN
    IF parent = {} THEN (IF <<"/">> \in DOMAIN fw THEN {fw[<<"/">>]} ELSE {})
    ELSE IF The(parent) \in DOMAIN fw THEN {fw[The(parent)]}
    ELSE walk_up_owning(The(parent), fw)

find_owning_folder(fw, path) ==
    IF path \in DOMAIN fw THEN {fw[path]} ELSE walk_up_owning(path, fw)

\* mutant: the owner may edit a locked folder
install_can_edit_owner(fw, path, wallet_pubkey) ==
    LET folder == find_owning_folder(fw, path) IN
    IF folder = {} THEN FALSE
    ELSE The(folder).wallet_pubkey = wallet_pubkey

\* GentlyInstall::can_edit
install_can_edit(fw, path, wallet_pubkey) ==
    LET folder == find_owning_folder(fw, path) IN
    IF folder = {} THEN FALSE
    ELSE IF The(folder).wallet_pubkey = wallet_pubkey THEN ~The(folder).locked
    ELSE FALSE

(* ------------------------------ Vec ------------------------------------ *)

\* mutant: the new record overwrites the last one
push_over_last(vec, x) ==
    IF vec = << >> THEN <<x>> ELSE [vec EXCEPT ![Len(vec)] = x]

\* Vec::push, as edit and record_dance use it on the audit history
push(vec, x) == Append(vec, x)

(* ------------------------------ results -------------------------------- *)

NoResult ==
    [op |-> "new", path |-> Root, actor |-> "", ok |-> TRUE, err |-> "",
     validation |-> {}, success |-> FALSE, internal_audit |-> {},
     report |-> << >>, to |-> "", amount |-> 0]

(* ------------------------------ actions -------------------------------- *)

\* PermissionManager::new(root_owner, initial_stake)
New(owner, initial_stake) ==
    /\ root_owner = owner
    /\ total_stake = initial_stake
    /\ nodes = [p \in {Root} |-> new_root(owner, initial_stake)]
    /\ accounts = airdrop(<< >>, owner, initial_stake)
    /\ internal_audits = 0
    /\ external_audits = 0
    /\ audits = << >>
    /\ result = NoResult
    /\ calls = [add |-> 0, edit_ok |-> 0, dance |-> 0, airdrop |-> 0,
                token |-> 0]

GovNoResult ==
    [op |-> "new", path |-> <<"/">>, level |-> Level_Root, ok |-> TRUE,
     err |-> "", audit |-> {}, wallet |-> {}, answer |-> FALSE,
     accumulate |-> FALSE, distribute |-> FALSE, reason |-> {}]

\* GovernanceSystem::new
GovernanceNew ==
    /\ root_wallet = [pubkey |-> derive_wallet_pubkey(<<"root">>),
                      token_id |-> root_token,
                      level |-> Level_Root,
                      allocation |-> ROOT_TOKEN_AMOUNT,
                      balance |-> ROOT_TOKEN_AMOUNT,
                      frozen |-> TRUE,
                      path |-> {<<"/", "gently", "/", "core">>},
                      file_size_weight |-> 0]
    /\ developer_wallet = [pubkey |-> derive_wallet_pubkey(<<"developer">>),
                           token_id |-> developer_wallet_id,
                           level |-> Developer,
                           allocation |-> ROOT_TOKEN_AMOUNT,
                           balance |-> ROOT_TOKEN_AMOUNT,
                           frozen |-> TRUE,
                           path |-> {},
                           file_size_weight |-> 0]
    /\ admin_wallet = [pubkey |-> derive_wallet_pubkey(<<"admin">>),
                       token_id |-> admin_token,
                       level |-> Admin,
                       allocation |-> ADMIN_TOKEN_COUNT,
                       balance |-> ADMIN_TOKEN_COUNT,
                       frozen |-> FALSE,
                       path |-> {<<"/">>},
                       file_size_weight |-> 0]
    /\ folders = << >>
    /\ users = << >>
    /\ audit_log = << >>
    /\ next_audit_id = 1
    /\ gov_result = GovNoResult
    /\ gov_calls = [add_folder |-> 0, add_user |-> 0, file_op |-> 0, init |-> 0]
    /\ created_frozen = {}

(* -------------------------------- lib.rs ------------------------------- *)

\* LockState: the variant and the value it carries
Dormant == [kind |-> "Dormant", value |-> 0]
AwaitingContract(nft_mint) == [kind |-> "AwaitingContract", value |-> nft_mint]
Active(expires_block) == [kind |-> "Active", value |-> expires_block]
Unlocked(valid_until) == [kind |-> "Unlocked", value |-> valid_until]
Revoked == [kind |-> "Revoked", value |-> 0]

BridgeNoResult == [op |-> "new", value |-> 0]

\* SplBridge::new(network)
SplBridge_new ==
    /\ lock_state = Dormant
    /\ collection = << >>
    /\ bridge_result = BridgeNoResult

\* SplBridge::mint_nft: NftCollection::mint pushes the new NFT, whose mint
\* address is fresh, and the lock awaits its contract
mint_nft(nfts) == Len(nfts) + 1

activate_from_any_state(state, expires_block) == Active(expires_block)

\* SplBridge::activate(expires_block)
activate(state, expires_block) ==
    IF state.kind = "AwaitingContract" THEN Active(expires_block) ELSE state

\* SplBridge::unlock(valid_until)
unlock(state, valid_until) ==
    IF state.kind = "Active" THEN Unlocked(valid_until) ELSE state

\* SplBridge::revoke()
revoke(state) == Revoked

\* the threads that call with_demo_permissions
Threads == {"t1", "t2"}

NoRequest == [kind |-> "none", path |-> Root, node |-> {}]
NoObservation == [by |-> "", op |-> "none", in_add |-> {}, dangling |-> FALSE,
                  total_nodes |-> 0]

\* Mutex::new(..) and threads that have not called yet
MutexNew ==
    /\ guard = {}
    /\ pc = [t \in Threads |-> "idle"]
    /\ local = [t \in Threads |-> NoRequest]
    /\ observation = NoObservation

InstallStakeGntly == {1, 1000}

InstallNoResult ==
    [op |-> "new", ok |-> TRUE, path |-> << >>, wallet |-> << >>, answer |-> FALSE]

\* GentlyInstall::new
GentlyInstall_new(total) ==
    /\ folder_wallets = << >>
    /\ install_total_stake = total
    /\ initialized = FALSE
    /\ install_result = InstallNoResult

Init ==
    /\ New("root", from_gntly(1))
    /\ GovernanceNew
    /\ MutexNew
    /\ SplBridge_new
    /\ GentlyInstall_new(from_gntly(1000))

InitTree ==
    /\ \E g \in InitialStakeGntly : New("root", from_gntly(g))
    /\ GovernanceNew
    /\ MutexNew
    /\ SplBridge_new
    /\ GentlyInstall_new(from_gntly(1000))

\* PermissionManager::add_path / PermissionTree::add_node
\* mutant: a call that finds no parent has already pushed the path into the
\* root's children list
AddPath_pushing_before_lookup(path, is_dir, owner) ==
    /\ calls.add < MaxAdds
    /\ IF find_node(nodes, parent_path(path)) = {}
       THEN /\ result' = [NoResult EXCEPT !.op = "add_node", !.path = path,
                              !.ok = FALSE, !.err = "TokenError: Parent not found"]
            /\ nodes' = [nodes EXCEPT ![Root].children = Append(@, path)]
            /\ UNCHANGED calls
       ELSE /\ nodes' = add_node(nodes, path, is_dir, owner, total_stake)
            /\ calls' = [calls EXCEPT !.add = @ + 1]
            /\ result' = [NoResult EXCEPT !.op = "add_node", !.path = path]
    /\ UNCHANGED <<total_stake, root_owner, internal_audits, external_audits,
                   accounts, audits>>
    /\ UNCHANGED <<govVars, fsVars, lockVars, bridgeVars>>

AddPath(path, is_dir, owner) ==
    /\ calls.add < MaxAdds
    /\ IF find_node(nodes, parent_path(path)) = {}
       THEN /\ result' = [NoResult EXCEPT !.op = "add_node", !.path = path,
                              !.ok = FALSE, !.err = "TokenError: Parent not found"]
            /\ UNCHANGED <<nodes, calls>>
       ELSE /\ nodes' = add_node(nodes, path, is_dir, owner, total_stake)
            /\ calls' = [calls EXCEPT !.add = @ + 1]
            /\ result' = [NoResult EXCEPT !.op = "add_node", !.path = path]
    /\ UNCHANGED <<total_stake, root_owner, internal_audits, external_audits,
                   accounts, audits>>
    /\ UNCHANGED <<govVars, fsVars, lockVars, bridgeVars>>

\* PermissionTree::validate_edit, called through PermissionManager::tree()
ValidateEdit(path, editor_stake) ==
    /\ LET v == validate_edit(nodes, path, editor_stake) IN
       result' = [NoResult EXCEPT !.op = "validate_edit", !.path = path,
                      !.ok = v.ok, !.err = v.err, !.validation = v.validation]
    /\ UNCHANGED <<nodes, total_stake, root_owner, internal_audits,
                   external_audits, accounts, audits, calls>>
    /\ UNCHANGED <<govVars, fsVars, lockVars, bridgeVars>>

\* PermissionManager::edit
Edit(path, editor) ==
    /\ LET editor_stake == balance(accounts, editor)
           v == validate_edit(nodes, path, editor_stake)
       IN
       IF ~v.ok
       THEN /\ result' = [NoResult EXCEPT !.op = "edit", !.path = path,
                              !.actor = editor, !.ok = FALSE, !.err = v.err]
            /\ UNCHANGED <<nodes, internal_audits, accounts, audits, calls>>
       ELSE IF edit_rejected(The(v.validation))
       THEN /\ result' = [NoResult EXCEPT !.op = "edit", !.path = path,
                              !.actor = editor, !.validation = v.validation]
            /\ UNCHANGED <<nodes, internal_audits, accounts, audits, calls>>
       ELSE LET r == record_edit(nodes, internal_audits, path, editor) IN
            IF ~r.ok
            THEN /\ result' = [NoResult EXCEPT !.op = "edit", !.path = path,
                                   !.actor = editor, !.ok = FALSE, !.err = r.err]
                 /\ UNCHANGED <<nodes, internal_audits, accounts, audits, calls>>
            ELSE /\ internal_audits < MaxAudits
                 /\ nodes' = r.nodes
                 /\ internal_audits' = r.internal_audits
                 /\ accounts' =
                        IF editor # root_owner
                        THEN LET t1 == transfer(accounts, editor, root_owner,
                                                AUDIT_SWAP_AMOUNT)
                                 t2 == transfer(t1.accounts, root_owner, editor,
                                                AUDIT_SWAP_AMOUNT)
                             IN  t2.accounts
                        ELSE accounts
                 /\ audits' = push(audits, The(r.audit))
                 /\ calls' = [calls EXCEPT !.edit_ok = @ + 1]
                 /\ result' = [NoResult EXCEPT !.op = "edit", !.path = path,
                                   !.actor = editor, !.validation = v.validation,
                                   !.success = TRUE, !.internal_audit = r.audit]
    /\ UNCHANGED <<total_stake, root_owner, external_audits>>
    /\ UNCHANGED <<govVars, fsVars, lockVars, bridgeVars>>

\* PermissionManager::record_dance
\* mutant: the dance is counted and not kept in the history
RecordDance_uncollected(peer) ==
    /\ external_audits < MaxAudits
    /\ LET r == record_external_audit(external_audits, peer) IN
       /\ external_audits' = r.external_audits
       /\ result' = [NoResult EXCEPT !.op = "record_dance", !.actor = peer]
    /\ calls' = [calls EXCEPT !.dance = @ + 1]
    /\ UNCHANGED <<nodes, total_stake, root_owner, internal_audits, accounts, audits>>
    /\ UNCHANGED <<govVars, fsVars, lockVars, bridgeVars>>

RecordDance(peer) ==
    /\ external_audits < MaxAudits
    /\ LET r == record_external_audit(external_audits, peer) IN
       /\ external_audits' = r.external_audits
       /\ audits' = push(audits, r.audit)
       /\ result' = [NoResult EXCEPT !.op = "record_dance", !.actor = peer]
    /\ calls' = [calls EXCEPT !.dance = @ + 1]
    /\ UNCHANGED <<nodes, total_stake, root_owner, internal_audits, accounts>>
    /\ UNCHANGED <<govVars, fsVars, lockVars, bridgeVars>>

\* PermissionTree::record_edit on a tree of its own
RecordEdit(path, editor) ==
    /\ LET r == record_edit(nodes, internal_audits, path, editor) IN
       /\ r.ok => internal_audits < MaxAudits
       /\ nodes' = r.nodes
       /\ internal_audits' = r.internal_audits
       /\ result' = [NoResult EXCEPT !.op = "record_edit", !.path = path,
                          !.actor = editor, !.ok = r.ok, !.err = r.err,
                          !.internal_audit = r.audit]
    /\ UNCHANGED <<total_stake, root_owner, external_audits, accounts, audits, calls>>
    /\ UNCHANGED <<govVars, fsVars, lockVars, bridgeVars>>

\* PermissionTree::record_external_audit on a tree of its own
RecordExternalAudit(peer) ==
    /\ external_audits < MaxAudits
    /\ LET r == record_external_audit(external_audits, peer) IN
       /\ external_audits' = r.external_audits
       /\ result' = [NoResult EXCEPT !.op = "record_external_audit",
                          !.actor = peer, !.internal_audit = {r.audit}]
    /\ UNCHANGED <<nodes, total_stake, root_owner, internal_audits, accounts,
                   audits, calls>>
    /\ UNCHANGED <<govVars, fsVars, lockVars, bridgeVars>>

\* GntlyToken::airdrop, called through PermissionManager::token()
Airdrop(wallet_pubkey, amount) ==
    /\ calls.airdrop < MaxAirdrops
    /\ accounts' = airdrop(accounts, wallet_pubkey, amount)
    /\ calls' = [calls EXCEPT !.airdrop = @ + 1]
    /\ result' = [NoResult EXCEPT !.op = "airdrop", !.actor = wallet_pubkey]
    /\ UNCHANGED <<nodes, total_stake, root_owner, internal_audits,
                   external_audits, audits>>
    /\ UNCHANGED <<govVars, fsVars, lockVars, bridgeVars>>

\* the state-changing governance calls so far
GovCalls == gov_calls.add_folder + gov_calls.add_user + gov_calls.file_op + gov_calls.init

\* the folders that a step creates for the first time with a frozen wallet
FirstFrozen(fs, after) == {p \in DOMAIN after \ DOMAIN fs : after[p].wallet.frozen}

\* GovernanceSystem::initialize_folders
InitializeFolders ==
    /\ GovCalls < MaxGovCalls
    /\ folders' = initialize_folders(folders, Len(default_folders))
    /\ created_frozen' = created_frozen \cup FirstFrozen(folders, folders')
    /\ gov_calls' = [gov_calls EXCEPT !.init = @ + 1]
    /\ gov_result' = [GovNoResult EXCEPT !.op = "initialize_folders"]
    /\ UNCHANGED <<root_wallet, developer_wallet, admin_wallet, users, audit_log,
                   next_audit_id>>
    /\ UNCHANGED <<permVars, fsVars, lockVars, bridgeVars>>

\* GovernanceSystem::add_folder
AddFolder(path, level) ==
    /\ GovCalls < MaxGovCalls
    /\ folders' = add_folder(folders, path, level)
    /\ created_frozen' = created_frozen \cup FirstFrozen(folders, folders')
    /\ gov_calls' = [gov_calls EXCEPT !.add_folder = @ + 1]
    /\ gov_result' = [GovNoResult EXCEPT !.op = "add_folder", !.path = path,
                           !.level = level]
    /\ UNCHANGED <<root_wallet, developer_wallet, admin_wallet, users, audit_log,
                   next_audit_id>>
    /\ UNCHANGED <<permVars, fsVars, lockVars, bridgeVars>>

\* GovernanceSystem::add_user
AddUser(user_id) ==
    /\ GovCalls < MaxGovCalls
    /\ users' = [u \in DOMAIN users \cup {user_id} |->
                    IF u = user_id THEN user_wallet(user_id) ELSE users[u]]
    /\ gov_calls' = [gov_calls EXCEPT !.add_user = @ + 1]
    /\ gov_result' = [GovNoResult EXCEPT !.op = "add_user",
                           !.wallet = {users'[user_id]}]
    /\ UNCHANGED <<root_wallet, developer_wallet, admin_wallet, folders, audit_log,
                   next_audit_id, created_frozen>>
    /\ UNCHANGED <<permVars, fsVars, lockVars, bridgeVars>>

\* GovernanceSystem::on_file_operation
OnFileOperation(path, operation) ==
    /\ LET r == on_file_operation(folders, next_audit_id, admin_wallet, path, operation) IN
       /\ gov_result' = [GovNoResult EXCEPT !.op = "on_file_operation", !.path = path,
                              !.reason = (IF r.ok THEN {operation} ELSE {}),
                              !.ok = r.ok, !.err = r.err, !.audit = r.audit]
       /\ IF r.ok
          THEN /\ GovCalls < MaxGovCalls
               /\ next_audit_id' = next_audit_id + 1
               /\ audit_log' = Append(audit_log, The(r.audit))
               /\ gov_calls' = [gov_calls EXCEPT !.file_op = @ + 1]
          ELSE UNCHANGED <<next_audit_id, audit_log, gov_calls>>
    /\ UNCHANGED <<root_wallet, developer_wallet, admin_wallet, folders, users,
                   created_frozen>>
    /\ UNCHANGED <<permVars, fsVars, lockVars, bridgeVars>>

\* GovernanceSystem::can_operate
CanOperate(path, required_level) ==
    /\ gov_result' = [GovNoResult EXCEPT !.op = "can_operate", !.path = path,
                           !.level = required_level,
                           !.answer = can_operate(folders, path, required_level)]
    /\ UNCHANGED <<root_wallet, developer_wallet, admin_wallet, folders, users,
                   audit_log, next_audit_id, gov_calls, created_frozen>>
    /\ UNCHANGED <<permVars, fsVars, lockVars, bridgeVars>>

\* GovernanceLevel::can_accumulate and can_distribute of one level
LevelCapabilities(level) ==
    /\ gov_result' = [GovNoResult EXCEPT !.op = "capabilities", !.level = level,
                           !.accumulate = can_accumulate(level),
                           !.distribute = can_distribute(level)]
    /\ UNCHANGED <<root_wallet, developer_wallet, admin_wallet, folders, users,
                   audit_log, next_audit_id, gov_calls, created_frozen>>
    /\ UNCHANGED <<permVars, fsVars, lockVars, bridgeVars>>

\* the orders in which a HashMap with the given keys may yield its entries
IterationOrders(keys) ==
    {f \in [1..Cardinality(keys) -> keys] : \A i, j \in DOMAIN f : f[i] = f[j] => i = j}

\* PermissionTree::stake_report, called through PermissionManager::tree()
StakeReport(values) ==
    /\ result' = [NoResult EXCEPT !.op = "stake_report",
                                  !.report = stake_report(nodes, values)]
    /\ UNCHANGED <<nodes, total_stake, root_owner, internal_audits,
                   external_audits, accounts, audits, calls>>
    /\ UNCHANGED <<govVars, fsVars, lockVars, bridgeVars>>

\* the stakes a caller probes validate_edit with
StakeProbes(path) ==
    IF path \in DOMAIN nodes
    THEN {nodes[path].stake_tokens, nodes[path].stake_tokens - 1} \cap Nat
    ELSE {0}

AirdropAmounts == {from_gntly(1) \div 2}

ManagerAdd == \E path \in ManagerPaths :
                  calls.add < MaxManagerAdds /\ AddPath(path, TRUE, "root")
ManagerValidate == \E path \in ManagerPaths :
                       \E s \in StakeProbes(path) : ValidateEdit(path, s)
ManagerEdit == \E path \in ManagerPaths, editor \in Identities : Edit(path, editor)

\* the manager's operations
Next ==
    \/ ManagerAdd
    \/ ManagerValidate
    \/ ManagerEdit
    \/ \E peer \in Peers : RecordDance(peer)
    \/ \E w \in Identities \ {"root"}, amount \in AirdropAmounts : Airdrop(w, amount)

Spec == Init /\ [][Next]_vars

\* the operations that look a node up, and the tree's own audit operations
NextOps ==
    \/ ManagerAdd
    \/ ManagerValidate
    \/ ManagerEdit
    \/ \E path \in ManagerPaths, editor \in Identities : RecordEdit(path, editor)
    \/ \E peer \in Peers : RecordExternalAudit(peer)

SpecOps == Init /\ [][NextOps]_vars

\* the operations that read or could write stakes: insertions, validations,
\* edits by the root owner (allowed) and by a holder of nothing (denied),
\* direct record_edit calls and dances
NextStakes ==
    \/ ManagerAdd
    \/ ManagerValidate
    \/ ManagerEdit
    \/ \E path \in ManagerPaths : RecordEdit(path, "root")
    \/ \E peer \in Peers : RecordDance(peer)

SpecStakes == Init /\ [][NextStakes]_vars

\* total supplies of a few smallest units, as TokenAmount(n) builds them
SmallSupplies == {1, 3, 7, 10}

InitSmall ==
    /\ \E lamports \in SmallSupplies : New("root", lamports)
    /\ GovernanceNew
    /\ MutexNew
    /\ SplBridge_new
    /\ GentlyInstall_new(from_gntly(1000))

\* insertions of new directories into a tree with a small supply
NextSmall ==
    \E path \in Paths \ DOMAIN nodes : AddPath(path, TRUE, "root")

SpecSmall == InitSmall /\ [][NextSmall]_vars

\* GntlyToken::transfer(from, to, amount, signature)
Transfer(from_pubkey, to_pubkey, amount) ==
    /\ calls.token < MaxTokenCalls
    /\ LET r == transfer(accounts, from_pubkey, to_pubkey, amount)
       IN  /\ accounts' = r.accounts
           /\ result' = [NoResult EXCEPT !.op = "transfer",
                                         !.actor = from_pubkey,
                                         !.to = to_pubkey, !.amount = amount,
                                         !.ok = r.ok, !.err = r.err]
    /\ calls' = [calls EXCEPT !.token = @ + 1]
    /\ UNCHANGED <<nodes, total_stake, root_owner, internal_audits,
                   external_audits, audits>>
    /\ UNCHANGED <<govVars, fsVars, lockVars, bridgeVars>>

\* GntlyToken::burn(wallet, amount)
Burn(wallet_pubkey, amount) ==
    /\ calls.token < MaxTokenCalls
    /\ LET r == burn(accounts, wallet_pubkey, amount)
       IN  /\ accounts' = r.accounts
           /\ result' = [NoResult EXCEPT !.op = "burn",
                                         !.actor = wallet_pubkey,
                                         !.amount = amount,
                                         !.ok = r.ok, !.err = r.err]
    /\ calls' = [calls EXCEPT !.token = @ + 1]
    /\ UNCHANGED <<nodes, total_stake, root_owner, internal_audits,
                   external_audits, audits>>
    /\ UNCHANGED <<govVars, fsVars, lockVars, bridgeVars>>

\* GntlyToken::stake(wallet, amount, path)
Stake(wallet_pubkey, amount) ==
    /\ calls.token < MaxTokenCalls
    /\ LET r == stake(accounts, wallet_pubkey, amount)
       IN  /\ accounts' = r.accounts
           /\ result' = [NoResult EXCEPT !.op = "stake",
                                         !.actor = wallet_pubkey,
                                         !.amount = amount,
                                         !.ok = r.ok, !.err = r.err]
    /\ calls' = [calls EXCEPT !.token = @ + 1]
    /\ UNCHANGED <<nodes, total_stake, root_owner, internal_audits,
                   external_audits, audits>>
    /\ UNCHANGED <<govVars, fsVars, lockVars, bridgeVars>>

\* the wallets and the amounts of the token calls
TokenWallets == {"root", "alice", "bob"}
TokenAmounts == {1, from_gntly(1), U64_MAX}

\* the token ledger alone: airdrop, transfer, burn and stake
NextToken ==
    \/ \E w \in TokenWallets, a \in TokenAmounts : Airdrop(w, a)
    \/ \E f \in TokenWallets, t \in TokenWallets, a \in TokenAmounts :
            Transfer(f, t, a)
    \/ \E w \in TokenWallets, a \in TokenAmounts : Burn(w, a)
    \/ \E w \in TokenWallets, a \in TokenAmounts : Stake(w, a)

SpecToken == Init /\ [][NextToken]_vars

\* SplBridge::mint_nft(wallet, key, visual_uri, contract, name)
MintNft ==
    /\ Len(collection) < MaxMints
    /\ LET nft_mint == mint_nft(collection)
       IN  /\ collection' = Append(collection, nft_mint)
           /\ lock_state' = AwaitingContract(nft_mint)
           /\ bridge_result' = [op |-> "mint_nft", value |-> nft_mint]
    /\ UNCHANGED <<permVars, govVars, fsVars, lockVars>>

\* SplBridge::activate(expires_block)
Activate(expires_block) ==
    /\ lock_state' = activate(lock_state, expires_block)
    /\ bridge_result' = [op |-> "activate", value |-> expires_block]
    /\ UNCHANGED collection
    /\ UNCHANGED <<permVars, govVars, fsVars, lockVars>>

\* SplBridge::unlock(valid_until)
BridgeUnlock(valid_until) ==
    /\ lock_state' = unlock(lock_state, valid_until)
    /\ bridge_result' = [op |-> "unlock", value |-> valid_until]
    /\ UNCHANGED collection
    /\ UNCHANGED <<permVars, govVars, fsVars, lockVars>>

\* SplBridge::revoke()
Revoke ==
    /\ lock_state' = revoke(lock_state)
    /\ bridge_result' = [op |-> "revoke", value |-> 0]
    /\ UNCHANGED collection
    /\ UNCHANGED <<permVars, govVars, fsVars, lockVars>>

\* the block heights passed to activate and unlock
Blocks == {1000, 2000, 3000}

NextBridge ==
    \/ MintNft
    \/ \E expires_block \in Blocks : Activate(expires_block)
    \/ \E valid_until \in Blocks : BridgeUnlock(valid_until)
    \/ Revoke

SpecBridge == Init /\ [][NextBridge]_vars

\* insertions of files and directories, and validations at and just below
\* the required stake
NextValidate ==
    \/ \E path \in Paths \ DOMAIN nodes, is_dir \in BOOLEAN : AddPath(path, is_dir, "root")
    \/ \E path \in Paths : \E s \in StakeProbes(path) : ValidateEdit(path, s)

SpecValidate == Init /\ [][NextValidate]_vars

(* --------------------------- DEMO_PERMISSIONS -------------------------- *)

\* mutant: lock() returns while another thread holds the guard
lock_unguarded(g) == TRUE

\* Mutex::lock returns once no thread holds the guard
lock(g) == g = {}

\* DEMO_PERMISSIONS.lock() in with_demo_permissions, for a closure that adds
\* a path or reads the tree
Lock(t, kind, path) ==
    /\ pc[t] = "idle"
    /\ lock(guard)
    /\ kind = "add_path" => calls.add < MaxAdds
    /\ guard' = guard \cup {t}
    /\ pc' = [pc EXCEPT ![t] = "locked"]
    /\ local' = [local EXCEPT ![t] = [kind |-> kind, path |-> path, node |-> {}]]
    /\ UNCHANGED observation
    /\ UNCHANGED <<permVars, govVars, fsVars, bridgeVars>>

\* add_node up to the push into the parent's children list
AddNodePush(t) ==
    /\ pc[t] = "locked"
    /\ local[t].kind = "add_path"
    /\ LET path == local[t].path
           pp == parent_path(path)
       IN  IF find_node(nodes, pp) = {}
           THEN /\ result' = [NoResult EXCEPT !.op = "add_node", !.path = path,
                                  !.ok = FALSE, !.err = "TokenError: Parent not found"]
                /\ pc' = [pc EXCEPT ![t] = "done"]
                /\ UNCHANGED <<nodes, local>>
           ELSE /\ local' = [local EXCEPT ![t].node =
                                {new_child(path, TRUE, nodes[pp],
                                           Len(nodes[pp].children), "root")}]
                /\ nodes' = [nodes EXCEPT ![pp].children = Append(@, path)]
                /\ pc' = [pc EXCEPT ![t] = "pushed"]
                /\ UNCHANGED result
    /\ UNCHANGED <<guard, observation>>
    /\ UNCHANGED <<total_stake, root_owner, internal_audits, external_audits,
                   accounts, audits, calls>>
    /\ UNCHANGED <<govVars, fsVars, bridgeVars>>

\* add_node: recalculate_siblings
AddNodeRecalculate(t) ==
    /\ pc[t] = "pushed"
    /\ nodes' = recalculate_siblings(nodes, parent_path(local[t].path), total_stake)
    /\ pc' = [pc EXCEPT ![t] = "recalculated"]
    /\ UNCHANGED <<guard, local, observation>>
    /\ UNCHANGED <<total_stake, root_owner, internal_audits, external_audits,
                   accounts, audits, result, calls>>
    /\ UNCHANGED <<govVars, fsVars, bridgeVars>>

\* add_node: the insert of the new node
AddNodeInsert(t) ==
    /\ pc[t] = "recalculated"
    /\ LET path == local[t].path IN
       /\ nodes' = [p \in DOMAIN nodes \cup {path} |->
                       IF p = path THEN The(local[t].node) ELSE nodes[p]]
       /\ result' = [NoResult EXCEPT !.op = "add_node", !.path = path]
    /\ calls' = [calls EXCEPT !.add = @ + 1]
    /\ pc' = [pc EXCEPT ![t] = "done"]
    /\ UNCHANGED <<guard, local, observation>>
    /\ UNCHANGED <<total_stake, root_owner, internal_audits, external_audits,
                   accounts, audits>>
    /\ UNCHANGED <<govVars, fsVars, bridgeVars>>

\* a closure that reads: stake_report, health_check or validate_edit
Observe(t) ==
    /\ pc[t] = "locked"
    /\ local[t].kind \in {"stake_report", "health_check", "validate_edit"}
    /\ observation' =
          [by |-> t, op |-> local[t].kind,
           in_add |-> {u \in Threads : pc[u] \in {"pushed", "recalculated"}},
           dangling |-> \E p \in DOMAIN nodes :
                            \E c \in Range(nodes[p].children) : c \notin DOMAIN nodes,
           total_nodes |-> Cardinality(DOMAIN nodes)]
    /\ pc' = [pc EXCEPT ![t] = "done"]
    /\ UNCHANGED <<guard, local>>
    /\ UNCHANGED <<permVars, govVars, fsVars, bridgeVars>>

\* the guard is dropped when with_demo_permissions returns
Unlock(t) ==
    /\ pc[t] = "done"
    /\ guard' = guard \ {t}
    /\ pc' = [pc EXCEPT ![t] = "idle"]
    /\ UNCHANGED <<local, observation>>
    /\ UNCHANGED <<permVars, govVars, fsVars, bridgeVars>>

\* the closures the threads pass
Closures == {"add_path", "stake_report", "health_check", "validate_edit"}

\* threads that add paths and read the tree through the lock
NextLock ==
    \/ \E t \in Threads, kind \in Closures, path \in ManagerPaths : Lock(t, kind, path)
    \/ \E t \in Threads : AddNodePush(t)
    \/ \E t \in Threads : AddNodeRecalculate(t)
    \/ \E t \in Threads : AddNodeInsert(t)
    \/ \E t \in Threads : Observe(t)
    \/ \E t \in Threads : Unlock(t)

SpecLock == Init /\ [][NextLock]_vars

\* the tree's insertions, with every path, kind and owner
NextTree ==
    \E path \in Paths, is_dir \in BOOLEAN, owner \in Identities :
        AddPath(path, is_dir, owner)

SpecTree == InitTree /\ [][NextTree]_vars

\* insertions of paths that are not in the tree yet
NextFresh ==
    \E path \in Paths \ DOMAIN nodes, is_dir \in BOOLEAN, owner \in Identities :
        AddPath(path, is_dir, owner)

SpecFresh == InitTree /\ [][NextFresh]_vars

(* the inputs of the governance calls *)

SwapReason ==
    {[kind |-> k, from |-> {}, to |-> {}] :
        k \in {"FileCreated", "FileModified", "FileDeleted", "PermissionChange",
               "AdminAction", "PeriodicAudit"}}
    \cup {[kind |-> "FileMoved", from |-> {<<"/", "tmp", "/", "f">>},
           to |-> {<<"/", "gently", "/", "core", "/", "f">>}]}

Core == <<"/", "gently", "/", "core">>

\* "/gently/core", "/gently/core/x"
FolderPaths == {Core, Core \o <<"/", "x">>}
FolderLevels == {Level_Root, User}
QueryFolderLevels == {Level_Root, Service}

\* "/gently/core", "/gently/core/", "/gently/core/x/f", "/var/log/f"
FilePaths == {Core, Core \o <<"/">>, Core \o <<"/", "x", "/", "f">>,
              <<"/", "var", "/", "log", "/", "f">>}
UserIds == {"alice", "bob"}

\* the governance system under folder and user registrations and file events
NextGov ==
    \/ InitializeFolders
    \/ \E path \in FolderPaths, level \in FolderLevels : AddFolder(path, level)
    \/ \E user_id \in UserIds : AddUser(user_id)
    \/ \E path \in FilePaths, operation \in SwapReason : OnFileOperation(path, operation)

SpecGov == Init /\ [][NextGov]_vars

\* the governance system's queries over every folder table
NextGovQuery ==
    \/ InitializeFolders
    \/ \E path \in FolderPaths, level \in QueryFolderLevels : AddFolder(path, level)
    \/ \E path \in FilePaths, level \in GovernanceLevel : CanOperate(path, level)
    \/ \E level \in GovernanceLevel : LevelCapabilities(level)

SpecGovQuery == Init /\ [][NextGovQuery]_vars

(* --------------------------- GentlyInstall ----------------------------- *)

\* GentlyInstall::initialize
Initialize ==
    /\ IF initialized
       THEN /\ install_result' = [InstallNoResult EXCEPT !.op = "initialize", !.ok = FALSE]
            /\ UNCHANGED <<folder_wallets, initialized>>
       ELSE /\ folder_wallets' = initialize(folder_wallets, install_total_stake,
                                            Len(DEFAULT_FOLDERS))
            /\ initialized' = TRUE
            /\ install_result' = [InstallNoResult EXCEPT !.op = "initialize"]
    /\ UNCHANGED install_total_stake
    /\ UNCHANGED <<permVars, govVars, lockVars, bridgeVars>>

\* GentlyInstall::add_user_home
AddUserHome(username) ==
    LET path == <<"/", "home", "/", username>> IN
    /\ IF path \in DOMAIN folder_wallets
       THEN /\ install_result' = [InstallNoResult EXCEPT !.op = "add_user_home",
                                                         !.ok = FALSE, !.path = path]
            /\ UNCHANGED folder_wallets
       ELSE /\ folder_wallets' =
                [p \in DOMAIN folder_wallets \cup {path} |->
                    IF p = path
                    THEN user_home_wallet(folder_wallets, install_total_stake, path)
                    ELSE folder_wallets[p]]
            /\ install_result' = [InstallNoResult EXCEPT !.op = "add_user_home",
                                                         !.path = path]
    /\ UNCHANGED <<install_total_stake, initialized>>
    /\ UNCHANGED <<permVars, govVars, lockVars, bridgeVars>>

\* GentlyInstall::can_edit
CanEdit(path, wallet_pubkey) ==
    /\ install_result' = [InstallNoResult EXCEPT
                             !.op = "can_edit", !.path = path, !.wallet = wallet_pubkey,
                             !.answer = install_can_edit(folder_wallets, path, wallet_pubkey)]
    /\ UNCHANGED <<folder_wallets, install_total_stake, initialized>>
    /\ UNCHANGED <<permVars, govVars, lockVars, bridgeVars>>

Usernames == {"alice", "bob"}

\* "/", "/bin", "/bin/", "/bin/x", "/home/alice", "/home/alice/f",
\* "/gently/keys/k", "/opt/f", "f"
EditPaths ==
    {<<"/">>, <<"/", "bin">>, <<"/", "bin", "/">>, <<"/", "bin", "/", "x">>,
     <<"/", "home", "/", "alice">>, <<"/", "home", "/", "alice", "/", "f">>,
     <<"/", "gently", "/", "keys", "/", "k">>, <<"/", "opt", "/", "f">>, <<"f">>}

\* the keys of some folders and the key of no folder
EditWallets ==
    {derive_folder_wallet(p) :
        p \in {<<"/">>, <<"/", "bin">>, <<"/", "home">>, <<"/", "home", "/", "alice">>,
               <<"/", "gently", "/", "keys">>}}
    \cup {<<"stranger">>}

\* an installation under bootstrap, home directories and permission queries
NextFs ==
    \/ Initialize
    \/ \E username \in Usernames : AddUserHome(username)
    \/ \E path \in EditPaths, wallet_pubkey \in EditWallets : CanEdit(path, wallet_pubkey)

InitFs ==
    /\ New("root", from_gntly(1))
    /\ GovernanceNew
    /\ MutexNew
    /\ SplBridge_new
    /\ \E g \in InstallStakeGntly : GentlyInstall_new(from_gntly(g))

SpecFs == InitFs /\ [][NextFs]_vars

\* the paths a reported tree is built from
ReportPaths == {<<"a">>, <<"b">>, <<"c">>, <<"a", "a">>}

\* insertions of new directories, and reports of the tree
NextReport ==
    \/ \E path \in ReportPaths \ DOMAIN nodes : AddPath(path, TRUE, "root")
    \/ \E values \in IterationOrders(DOMAIN nodes) : StakeReport(values)

SpecReport == InitTree /\ [][NextReport]_vars

\* "/gently", "/gently/core" in the permission tree
GovernedTreePaths == {<<"gently">>, <<"gently", "core">>}

\* the permission tree and the governance system of one installation
NextInstall ==
    \/ InitializeFolders
    \/ \E path \in GovernedTreePaths : AddPath(path, TRUE, "root")
    \/ \E path \in GovernedTreePaths, editor \in Identities : RecordEdit(path, editor)
    \/ \E path \in GovernedTreePaths, editor \in Identities : Edit(path, editor)

SpecInstall == Init /\ [][NextInstall]_vars

(* ------------------------- claims: the stake tree ---------------------- *)

OneMinusRoot == RatSub(RatOne, ROOT_STAKE_PERCENT)

\* the distinct paths in a node's children list
ChildSet(p) == Range(nodes[p].children) \cap DOMAIN nodes

RECURSIVE ShareSum(_, _)
ShareSum(ns, S) ==
    IF S = {} THEN RatZero
    ELSE LET c == CHOOSE x \in S : TRUE
         IN  RatAdd(ns[c].stake_percent, ShareSum(ns, S \ {c}))

\* the share a parent's children divide: its own, or 1 - ROOT_SHARE for the root
Distributable(ns, p) == IF p = Root THEN OneMinusRoot ELSE ns[p].stake_percent

\* a step that is a successful add_node
AddStep == result'.op = "add_node" /\ result'.ok /\ calls'.add = calls.add + 1

\* C1: whenever the root has at least one child, the shares of the root's
\* children sum to 1 - ROOT_SHARE.
C1_SumInvariant ==
    nodes[Root].children # << >> =>
        ShareSum(nodes, ChildSet(Root)) = OneMinusRoot

\* C2: the node at "/" holds ROOT_SHARE in every reachable state.
C2_RootImmutable == nodes[Root].stake_percent = ROOT_STAKE_PERCENT

\* C3: a successful add_node under a parent that had n children leaves every
\* child of that parent with share D/(n+1) and the matching amount.
C3_CascadeCorrect ==
    [][AddStep =>
        LET pp == parent_path(result'.path)
            n == Len(nodes[pp].children)
            each == RatDivInt(Distributable(nodes, pp), n + 1)
        IN  \A c \in Range(nodes'[pp].children) :
                /\ nodes'[c].stake_percent = each
                /\ nodes'[c].stake_tokens = TruncMul(total_stake, each)]_vars

\* C4: every non-root node has a share strictly smaller than its parent's.
C4_MonotonicDepth ==
    \A p \in DOMAIN nodes \ {Root} :
        \A q \in nodes[p].parent \cap DOMAIN nodes :
            RatLess(nodes[p].stake_percent, nodes[q].stake_percent)

\* C5: for every parent, the shares of its children sum to at most the
\* parent's distributable share.
C5_ChildrenWithinParent ==
    \A p \in DOMAIN nodes :
        RatLeq(ShareSum(nodes, ChildSet(p)), Distributable(nodes, p))

(* ---------------------- claims: edits and audits ----------------------- *)

NodeNotFound(err) == err \in {"TokenError: Path not found", "TokenError: Node not found"}

\* the target and the actor of the operation a step performs
Target == result'.path
Actor == result'.actor

FrameUnchanged == UNCHANGED <<nodes, internal_audits, external_audits, audits, accounts>>

\* C6: validate_edit on an existing node allows the edit exactly when the
\* actor's stake is at least the node's stake_amount (equal stake allowed, one
\* unit less denied) and reports that amount as required_stake.
C6_ValidateBoundary ==
    (result.op = "validate_edit" /\ result.path \in DOMAIN nodes) =>
        /\ result.ok
        /\ result.validation # {}
        /\ LET v == The(result.validation)
               required == nodes[result.path].stake_tokens
           IN  /\ v.allowed = (v.editor_stake >= required)
               /\ v.editor_stake = required => v.allowed
               /\ v.editor_stake = required - 1 => ~v.allowed
               /\ v.required_stake = required

C6_Witness ==
    /\ result.op = "validate_edit" /\ result.validation # {}
    /\ The(result.validation).allowed
    /\ The(result.validation).editor_stake = nodes[result.path].stake_tokens
    /\ nodes[result.path].stake_tokens > 0

\* C7: an edit by an actor whose balance is below the node's stake_amount
\* returns Ok with success = false, allowed = false and no internal audit, and
\* changes no node, counter, audit record or balance.
C7_DeniedEditIsOk ==
    [][(/\ result'.op = "edit"
        /\ Target \in DOMAIN nodes
        /\ balance(accounts, Actor) < nodes[Target].stake_tokens) =>
            /\ result'.ok
            /\ ~result'.success
            /\ result'.validation # {}
            /\ ~The(result'.validation).allowed
            /\ result'.internal_audit = {}
            /\ FrameUnchanged]_vars

C7_Witness ==
    /\ result.op = "edit" /\ result.ok /\ ~result.success
    /\ result.validation # {}
    /\ ~The(result.validation).allowed
    /\ balance(accounts, result.actor) < nodes[result.path].stake_tokens

\* C8: validate_edit, record_edit and edit on a path that was never added
\* return a not-found error and change no node, counter, audit record or
\* balance.
C8_MissingNodeFails ==
    [][(/\ result'.op \in {"validate_edit", "record_edit", "edit"}
        /\ Target \notin DOMAIN nodes) =>
            /\ ~result'.ok
            /\ NodeNotFound(result'.err)
            /\ FrameUnchanged]_vars

C8_Witness ==
    /\ result.op = "record_edit" /\ ~result.ok
    /\ result.path \notin DOMAIN nodes
    /\ internal_audits > 0

\* C9: the system reports balanced exactly when as many edits have succeeded
\* as dances have been recorded, which is when the two counters are equal.
C9_AuditBalance ==
    /\ is_balanced <=> (calls.edit_ok = calls.dance)
    /\ health_check.balanced <=> (internal_audits = external_audits)
    /\ internal_audits = calls.edit_ok
    /\ external_audits = calls.dance

C9_Witness ==
    /\ calls.edit_ok = MaxAudits /\ calls.dance = MaxAudits - 1
    /\ ~health_check.balanced

IsInternal(r) == r.audit_type = "Internal"
IsExternal(r) == r.audit_type = "External"

Numbered(records) == \A i \in 1..Len(records) : records[i].audit_number = i

\* C10: for each kind, the records produced carry the numbers 1, 2, 3, ... in
\* production order, and a failed or denied edit consumes no number.
C10_AuditNumbers ==
    /\ Numbered(SelectSeq(audits, IsInternal))
    /\ Numbered(SelectSeq(audits, IsExternal))
    /\ Len(SelectSeq(audits, IsInternal)) = internal_audits
    /\ Len(SelectSeq(audits, IsExternal)) = external_audits
    /\ (result.op = "edit" /\ result.success) =>
           The(result.internal_audit).audit_number = internal_audits
    /\ (result.op = "edit" /\ ~result.success) => result.internal_audit = {}

C10_Witness ==
    /\ Len(SelectSeq(audits, IsInternal)) = MaxAudits
    /\ Len(SelectSeq(audits, IsExternal)) = MaxAudits
    /\ result.op = "edit" /\ ~result.success

\* C11: after any successful edit every identity's ledger balance equals its
\* balance immediately before the edit.
C11_SwapNetsToZero ==
    [][(result'.op = "edit" /\ result'.success) =>
            \A id \in Identities : balance(accounts', id) = balance(accounts, id)]_vars

\* the nodes on the way from the root to a path, the path excluded
Ancestors(path) == {SubSeq(path, 1, k) : k \in 0..(Len(path) - 1)} \cap DOMAIN nodes

NearestAncestor(path) ==
    CHOOSE q \in Ancestors(path) : \A r \in Ancestors(path) : Len(r) <= Len(q)

\* C16: add_node of a path whose immediate parent was never added, while some
\* ancestor exists, succeeds and links the new node as a child of the nearest
\* existing ancestor, one generation below it.
C16_ParentWalk ==
    [][(/\ result'.op = "add_node"
        /\ Target # Root
        /\ parent_path(Target) \notin DOMAIN nodes
        /\ Ancestors(Target) # {}) =>
            /\ result'.ok
            /\ Target \in DOMAIN nodes'
            /\ nodes'[Target].parent = {NearestAncestor(Target)}
            /\ nodes'[Target].generation = nodes[NearestAncestor(Target)].generation + 1
            /\ Target \in Range(nodes'[NearestAncestor(Target)].children)]_vars

\* C20: exactly one node has generation 0 and no parent, it is the node at
\* "/", and every other node has a parent in the tree one generation above it.
C20_TreeShape ==
    /\ Cardinality({p \in DOMAIN nodes :
                        nodes[p].generation = 0 /\ nodes[p].parent = {}}) = 1
    /\ Root \in DOMAIN nodes
    /\ nodes[Root].generation = 0 /\ nodes[Root].parent = {}
    /\ nodes[Root].path = Root
    /\ \A p \in DOMAIN nodes \ {Root} :
            /\ nodes[p].parent # {}
            /\ nodes[p].parent \subseteq DOMAIN nodes
            /\ nodes[p].generation = nodes[The(nodes[p].parent)].generation + 1

(* ----------------------- claims: the governance system ----------------- *)

\* the names of a path, without the slashes
IsName(token) == token # "/"
Segments(path) == SelectSeq(path, IsName)

IsPrefix(s, t) == Len(s) <= Len(t) /\ SubSeq(t, 1, Len(s)) = s

\* path names the folder or something anywhere below it
AtOrBelow(path, folder) == IsPrefix(Segments(folder), Segments(path))

FrozenFolders == {f \in DOMAIN folders : folders[f].wallet.frozen}

\* C12: on_file_operation fails with NotAuthorized whenever its path is a
\* frozen governed folder or lies anywhere below one.
C12_FrozenEnforced ==
    (/\ gov_result.op = "on_file_operation"
     /\ \E f \in FrozenFolders : AtOrBelow(gov_result.path, f)) =>
        ~gov_result.ok /\ gov_result.err = "NotAuthorized"

\* the governed folders strictly above a path, trailing slashes ignored
Above(path) ==
    {f \in DOMAIN folders :
        AtOrBelow(path, f) /\ Len(Segments(f)) < Len(Segments(path))}

\* the nearest governed folder of a path: the path itself when it is a key of
\* the table, otherwise the deepest governed folder above it
Nearest(path) ==
    IF path \in DOMAIN folders THEN {path}
    ELSE {f \in Above(path) :
            \A g \in Above(path) : Len(Segments(g)) <= Len(Segments(f))}

\* C13 as claimed: can_operate returns exactly (L >= required_level), L the
\* tier of the nearest governed folder of the path.
C13_LevelOnly ==
    (gov_result.op = "can_operate" /\ Nearest(gov_result.path) # {}) =>
        gov_result.answer =
            (folders[The(Nearest(gov_result.path))].wallet.level >= gov_result.level)

\* C13 amended: can_operate returns false when the nearest governed folder is
\* frozen or there is none, and exactly (L >= required_level) otherwise.
C13_CanOperate ==
    gov_result.op = "can_operate" =>
        LET near == Nearest(gov_result.path) IN
        gov_result.answer =
            (/\ near # {}
             /\ ~folders[The(near)].wallet.frozen
             /\ folders[The(near)].wallet.level >= gov_result.level)

C13_Witness ==
    /\ gov_result.op = "can_operate"
    /\ gov_result.path \notin DOMAIN folders
    /\ Nearest(gov_result.path) # {}
    /\ folders[The(Nearest(gov_result.path))].wallet.level = gov_result.level
    /\ gov_result.level = Service
    /\ gov_result.answer

\* C14: every wallet add_user created has tier User and allocation = balance
\* = 1 in every later state, so its balance never exceeds the allocation fixed
\* at creation, and add_user returns that wallet.
C14_UserAllocationFixed ==
    /\ \A u \in DOMAIN users :
            /\ users[u].level = User
            /\ users[u].allocation = 1
            /\ users[u].balance = users[u].allocation
            /\ ~can_receive(users[u])
    /\ gov_result.op = "add_user" =>
            \E u \in DOMAIN users : gov_result.wallet = {users[u]}

C14_Witness ==
    /\ DOMAIN users # {}
    /\ gov_calls.add_folder > 0
    /\ gov_result.op = "on_file_operation" /\ gov_result.ok
    /\ Len(audit_log) > 0

\* C15 as claimed: Root and Developer have neither capability, User and Guest
\* cannot accumulate, Admin, System and Service have both.
C15_CapabilityTable ==
    gov_result.op = "capabilities" =>
        /\ gov_result.level \in {Level_Root, Developer} =>
                ~gov_result.accumulate /\ ~gov_result.distribute
        /\ gov_result.level \in {User, Guest} => ~gov_result.accumulate
        /\ gov_result.level \in {Admin, System, Service} =>
                gov_result.accumulate /\ gov_result.distribute

\* C15 amended: Root has neither capability, Developer cannot accumulate but
\* can distribute, User and Guest cannot accumulate, Admin, System and Service
\* have both.
C15_CapabilityTableDeveloper ==
    gov_result.op = "capabilities" =>
        /\ gov_result.level = Level_Root =>
                ~gov_result.accumulate /\ ~gov_result.distribute
        /\ gov_result.level = Developer =>
                ~gov_result.accumulate /\ gov_result.distribute
        /\ gov_result.level \in {User, Guest} => ~gov_result.accumulate
        /\ gov_result.level \in {Admin, System, Service} =>
                gov_result.accumulate /\ gov_result.distribute

C15_Witness ==
    /\ gov_result.op = "capabilities"
    /\ gov_result.level = Developer
    /\ ~gov_result.accumulate /\ gov_result.distribute

\* C18: a folder whose wallet was frozen when the folder was first created is
\* governed and frozen in every later state.
C18_FrozenForever ==
    \A p \in created_frozen : p \in DOMAIN folders /\ folders[p].wallet.frozen

HasTier(path, level) == path \in DOMAIN folders /\ folders[path].wallet.level = level
IsFrozen(path) == path \in DOMAIN folders /\ folders[path].wallet.frozen

\* the rows of the default table other than "/"
DefaultRows ==
    /\ \A path \in {<<"/", "bin">>, <<"/", "etc">>, <<"/", "var">>,
                     <<"/", "var", "/", "log">>} : HasTier(path, System)
    /\ HasTier(<<"/", "home">>, User)
    /\ HasTier(<<"/", "tmp">>, Guest)
    /\ HasTier(Core, Level_Root) /\ IsFrozen(Core)

\* C19 as claimed: after initialize_folders "/" is at Root tier and frozen,
\* /bin, /etc, /var and /var/log are at System tier, /home at User tier, /tmp
\* at Guest tier and /gently/core at Root tier and frozen.
C19_DefaultTable ==
    gov_result.op = "initialize_folders" =>
        /\ HasTier(<<"/">>, Level_Root) /\ IsFrozen(<<"/">>)
        /\ DefaultRows

\* C19 amended: after initialize_folders "/" is at Admin tier and not frozen,
\* and the other rows are as claimed.
C19_DefaultTableAdminRoot ==
    gov_result.op = "initialize_folders" =>
        /\ HasTier(<<"/">>, Admin) /\ ~IsFrozen(<<"/">>)
        /\ DefaultRows

C19_Witness ==
    /\ gov_result.op = "initialize_folders"
    /\ gov_calls.add_folder > 0
    /\ Cardinality(DOMAIN folders) >= Len(default_folders)

\* the string of a permission-tree path
path_string(path) ==
    IF path = Root THEN <<"/">>
    ELSE [i \in 1..(2 * Len(path)) |-> IF i % 2 = 1 THEN "/" ELSE path[i \div 2]]

\* a node of the permission tree at the path of a frozen governed folder
FrozenNode(path) == path \in DOMAIN nodes /\ path_string(path) \in FrozenFolders

\* C17: record_edit and edit on a frozen node fail with NotAuthorized and
\* leave the node's edit_count and the internal counter unchanged.
C17_FrozenNodeEdit ==
    [][(result'.op \in {"record_edit", "edit"} /\ FrozenNode(Target)) =>
            /\ ~result'.ok
            /\ result'.err = "NotAuthorized"
            /\ nodes'[Target].edit_count = nodes[Target].edit_count
            /\ internal_audits' = internal_audits]_vars

(* -------------------- claims: the audit history and frames ------------- *)

\* C21: the audit history only grows at its end: every record keeps its
\* position and its fields and none is removed.
C21_AppendOnly ==
    [][/\ Len(audits') >= Len(audits)
       /\ SubSeq(audits', 1, Len(audits)) = audits]_vars

C21_Witness ==
    /\ Len(audits) >= 3
    /\ IsInternal(audits[1]) /\ IsExternal(audits[2])
    /\ result.op = "edit" /\ result.success

\* C22: the outcome of add_path, edit, validate_edit and record_dance is fixed
\* by the tree, the ledger and the arguments alone, so it is the same in a
\* balanced and in an unbalanced state: add_path succeeds exactly when the
\* parent exists, validate_edit and edit fail exactly when the node is missing,
\* edit succeeds exactly when the editor's balance reaches the node's stake,
\* and record_dance always records.
C22_BalanceAdvisory ==
    [][/\ result'.op = "add_node" =>
            /\ result'.ok = (parent_path(Target) \in DOMAIN nodes)
            /\ result'.ok => Target \in DOMAIN nodes'
       /\ result'.op = "validate_edit" =>
            /\ result'.ok = (Target \in DOMAIN nodes)
            /\ result'.ok =>
                  The(result'.validation).allowed =
                      (The(result'.validation).editor_stake >= nodes[Target].stake_tokens)
       /\ result'.op = "edit" =>
            /\ result'.ok = (Target \in DOMAIN nodes)
            /\ result'.success =
                  (/\ Target \in DOMAIN nodes
                   /\ balance(accounts, Actor) >= nodes[Target].stake_tokens)
            /\ result'.success =>
                  /\ internal_audits' = internal_audits + 1
                  /\ nodes'[Target].edit_count = nodes[Target].edit_count + 1
       /\ result'.op = "record_dance" =>
            /\ result'.ok
            /\ external_audits' = external_audits + 1
            /\ Len(audits') = Len(audits) + 1]_vars

\* an edit that succeeded in a state with one internal and no external audit
C22_Witness ==
    /\ result.op = "edit" /\ result.success
    /\ internal_audits = 2 /\ external_audits = 0

\* C23: record_external_audit always succeeds, raises the external counter by
\* exactly 1, returns an External record tied to "/" and leaves the internal
\* counter and every node unchanged.
C23_ExternalAuditFrame ==
    [][result'.op = "record_external_audit" =>
            /\ result'.ok
            /\ external_audits' = external_audits + 1
            /\ result'.internal_audit # {}
            /\ LET record == The(result'.internal_audit) IN
               /\ record.audit_type = "External"
               /\ record.path = Root
               /\ record.editor = Actor
               /\ record.audit_number = external_audits + 1
            /\ internal_audits' = internal_audits
            /\ nodes' = nodes]_vars

C23_Witness ==
    /\ result.op = "record_external_audit"
    /\ external_audits = 2
    /\ internal_audits = 1
    /\ Cardinality(DOMAIN nodes) = 3

(* --------------------------- claims: the report ------------------------ *)

\* the lexical order of paths with one-letter names
Letter == [a |-> 1, b |-> 2, c |-> 3]

RECURSIVE PathLess(_, _)
PathLess(p, q) ==
    IF q = << >> THEN FALSE
    ELSE IF p = << >> THEN TRUE
    ELSE IF Head(p) # Head(q) THEN Letter[Head(p)] < Letter[Head(q)]
    ELSE PathLess(Tail(p), Tail(q))

\* generation ascending, then share descending, then path ascending
ReportBefore(a, b) ==
    \/ report_less(a, b)
    \/ /\ ~report_less(b, a)
       /\ PathLess(a.path, b.path)

\* C24: stake_report returns one entry per node, ordered by generation
\* ascending, then stake_share descending, then path ascending, so the same
\* nodes always yield the same sequence.
C24_ReportOrder ==
    result.op = "stake_report" =>
        /\ Len(result.report) = Cardinality(DOMAIN nodes)
        /\ {result.report[i].path : i \in 1..Len(result.report)} = DOMAIN nodes
        /\ \A i, j \in 1..Len(result.report) :
                i < j => ReportBefore(result.report[i], result.report[j])

(* --------------------------- claims: the installation ------------------ *)

\* the folders of the installation strictly above a path
AboveInstalled(path) ==
    {f \in DOMAIN folder_wallets :
        AtOrBelow(path, f) /\ Len(Segments(f)) < Len(Segments(path))}

\* the owning folder of a path: the path itself when it is a folder, else the
\* deepest folder above it (the root is above every path)
Owning(path) ==
    IF path \in DOMAIN folder_wallets THEN {path}
    ELSE {f \in AboveInstalled(path) :
            \A g \in AboveInstalled(path) : Len(Segments(g)) <= Len(Segments(f))}

\* C25: can_edit(path, wallet) is true exactly when the owning folder of path
\* has wallet_pubkey = wallet and is not locked.
C25_CanEdit ==
    install_result.op = "can_edit" =>
        install_result.answer =
            (\E f \in Owning(install_result.path) :
                /\ folder_wallets[f].wallet_pubkey = install_result.wallet
                /\ ~folder_wallets[f].locked)

\* the owner of "/home/alice" is allowed below it, after the owner of the
\* locked root was refused
C25_Witness ==
    /\ install_result.op = "can_edit"
    /\ install_result.answer
    /\ install_result.path = <<"/", "home", "/", "alice", "/", "f">>
    /\ <<"/", "home", "/", "alice">> \in DOMAIN folder_wallets
    /\ initialized
    /\ folder_wallets[<<"/">>].locked

(* --------------------------- claims: the cascade ----------------------- *)

\* the stakes of the children of a parent
ChildStakes(ns, pp) ==
    [c \in Range(ns[pp].children) \cap DOMAIN ns |->
        <<ns[c].stake_percent, ns[c].stake_tokens>>]

\* C26: a second recalculate_siblings(parent) right after a first leaves
\* every child of parent with the stake_share and stake_amount the first
\* call gave it.
C26_RecalculateIdempotent ==
    \A pp \in DOMAIN nodes :
        LET once == recalculate_siblings(nodes, pp, total_stake)
            twice == recalculate_siblings(once, pp, total_stake)
        IN  ChildStakes(twice, pp) = ChildStakes(once, pp)

\* the root has two children and a recalculation changes one of them
C26_Witness ==
    /\ Root \in DOMAIN nodes
    /\ Cardinality(Range(nodes[Root].children) \cap DOMAIN nodes) >= 2
    /\ ChildStakes(recalculate_siblings(nodes, Root, total_stake), Root)
            # ChildStakes(nodes, Root)

(* --------------------------- claims: the frame of edit ----------------- *)

\* C28: a successful edit(path, editor) raises that node's edit_count and the
\* internal counter by exactly 1, appends exactly one Internal record for
\* that path and editor to the history (the record it returns), and changes
\* no other node's edit_count and not the external counter.
C28_EditFrame ==
    [][(result'.op = "edit" /\ result'.success) =>
        LET path == result'.path IN
        /\ DOMAIN nodes' = DOMAIN nodes
        /\ nodes'[path].edit_count = nodes[path].edit_count + 1
        /\ \A p \in DOMAIN nodes \ {path} :
                nodes'[p].edit_count = nodes[p].edit_count
        /\ internal_audits' = internal_audits + 1
        /\ external_audits' = external_audits
        /\ Len(audits') = Len(audits) + 1
        /\ SubSeq(audits', 1, Len(audits)) = audits
        /\ result'.internal_audit = {audits'[Len(audits')]}
        /\ audits'[Len(audits')].audit_type = "Internal"
        /\ audits'[Len(audits')].path = path
        /\ audits'[Len(audits')].editor = result'.actor]_vars

\* a second successful edit, by an editor other than the root owner, in a
\* tree with other nodes
C28_Witness ==
    /\ result.op = "edit"
    /\ result.success
    /\ result.actor # root_owner
    /\ internal_audits = 2
    /\ Cardinality(DOMAIN nodes) >= 2

(* --------------------------- claims: the frame of stakes --------------- *)

\* the stake_percent and stake_tokens of every node
Stakes(ns) == [p \in DOMAIN ns |-> <<ns[p].stake_percent, ns[p].stake_tokens>>]

\* the nodes that are in both maps with different stakes
Restaked(ns, after) ==
    {p \in DOMAIN ns \cap DOMAIN after : Stakes(ns)[p] # Stakes(after)[p]}

C30_AmountOfShare ==
    \A p \in DOMAIN nodes :
        nodes[p].stake_tokens = TruncMul(total_stake, nodes[p].stake_percent)

(* --------------------------- claims: the node map ---------------------- *)

\* C31: a node that is in the tree stays in it through every later add_node,
\* with the same owner, parent, generation and edit_count, and with a
\* children list that only grows at its end.
C31_NodesKept ==
    [][\A p \in DOMAIN nodes :
        /\ p \in DOMAIN nodes'
        /\ nodes'[p].owner = nodes[p].owner
        /\ nodes'[p].parent = nodes[p].parent
        /\ nodes'[p].generation = nodes[p].generation
        /\ nodes'[p].edit_count = nodes[p].edit_count
        /\ IsPrefix(nodes[p].children, nodes'[p].children)]_vars

(* --------------------------- claims: the preview ----------------------- *)

\* the preview the claim describes for a node: the node itself, then its
\* children in insertion order, each with stake_tokens / (1 + children)
IsPreviewOf(preview, node) ==
    LET share == node.stake_tokens \div (1 + Len(node.children))
        dist == preview.new_distribution
    IN  /\ Len(dist) = 1 + Len(node.children)
        /\ dist[1] = <<node.path, share>>
        /\ \A i \in 1..Len(node.children) : dist[i + 1] = <<node.children[i], share>>

\* C32 as claimed: validate_edit of a directory with at least one child
\* returns the preview, and of a file or a childless directory none.
C32_PreviewOfDirectory ==
    (result.op = "validate_edit" /\ result.ok) =>
        LET node == nodes[result.path]
            v == The(result.validation)
        IN  IF node.is_dir /\ node.children # << >>
            THEN /\ v.stake_redistribution # {}
                 /\ IsPreviewOf(The(v.stake_redistribution), node)
            ELSE v.stake_redistribution = {}

\* C32 amended: an allowed validate_edit of a directory with at least one
\* child returns the preview; a denied one, and one of a file or a childless
\* directory, returns none.
C32_PreviewWhenAllowed ==
    (result.op = "validate_edit" /\ result.ok) =>
        LET node == nodes[result.path]
            v == The(result.validation)
        IN  IF v.allowed /\ node.is_dir /\ node.children # << >>
            THEN /\ v.stake_redistribution # {}
                 /\ IsPreviewOf(The(v.stake_redistribution), node)
            ELSE v.stake_redistribution = {}

\* an allowed validation of a directory with two children
C32_Witness ==
    /\ result.op = "validate_edit"
    /\ result.ok
    /\ The(result.validation).allowed
    /\ nodes[result.path].is_dir
    /\ Len(nodes[result.path].children) = 2
    /\ The(result.validation).stake_redistribution # {}

(* --------------------------- claims: the swap log ---------------------- *)

\* C33: a successful on_file_operation appends exactly one SwapAudit, from
\* the resolved folder's wallet to the admin wallet, amount 1, with the
\* given reason, whose id is 1 for the first record and the previous id + 1
\* afterwards; a failed one appends nothing and consumes no id; and
\* audit_log.len() = next_audit_id - 1 throughout.
C33_SwapLog ==
    [][/\ Len(audit_log') = next_audit_id' - 1
       /\ (gov_result'.op = "on_file_operation" /\ gov_result'.ok) =>
            LET rec == audit_log'[Len(audit_log')] IN
            /\ audit_log' = Append(audit_log, rec)
            /\ gov_result'.audit = {rec}
            /\ rec.id = (IF audit_log = << >> THEN 1
                         ELSE audit_log[Len(audit_log)].id + 1)
            /\ next_audit_id' = next_audit_id + 1
            /\ Nearest(gov_result'.path) # {}
            /\ rec.from_wallet = folders[The(Nearest(gov_result'.path))].wallet.pubkey
            /\ rec.to_wallet = admin_wallet.pubkey
            /\ rec.amount = 1
            /\ {rec.reason} = gov_result'.reason
       /\ (gov_result'.op = "on_file_operation" /\ ~gov_result'.ok) =>
            /\ audit_log' = audit_log
            /\ next_audit_id' = next_audit_id
       /\ gov_result'.op # "on_file_operation" =>
            /\ audit_log' = audit_log
            /\ next_audit_id' = next_audit_id]_vars

\* a second record in the log, after a file operation under a frozen folder
\* was refused
C33_Witness ==
    /\ Len(audit_log) = 2
    /\ audit_log[2].id = 2
    /\ gov_result.op = "on_file_operation"
    /\ ~gov_result.ok
    /\ gov_result.err = "NotAuthorized"

(* --------------------------- claims: failing insertions ---------------- *)

\* C34: an add_node that finds no parent returns a typed error and leaves
\* the node map (every children list, stake_percent and stake_tokens) and
\* both audit counters as they were.
C34_FailedAddFrame ==
    [][(result'.op = "add_node" /\ ~result'.ok) =>
        /\ result'.err = "TokenError: Parent not found"
        /\ parent_path(result'.path) \notin DOMAIN nodes
        /\ nodes' = nodes
        /\ internal_audits' = internal_audits
        /\ external_audits' = external_audits]_vars

\* a failed add_node on a tree that already has a child with a share
C34_Witness ==
    /\ result.op = "add_node"
    /\ ~result.ok
    /\ Cardinality(DOMAIN nodes) >= 3

(* --------------------------- claims: the lock -------------------------- *)

\* C35: no stake_report, health_check or validate_edit made through the lock
\* sees the tree between add_node's push into the parent's children list and
\* its insert of the node: no thread is inside add_node when the reader
\* runs, and every path the reader finds in a children list is a node.
C35_NoTornRead ==
    /\ observation.in_add = {}
    /\ ~observation.dangling
    /\ Cardinality(guard) <= 1

\* a reader ran on one thread while the other, which had added a path, was
\* waiting to add another
C35_Witness ==
    /\ observation.by = "t2"
    /\ observation.op = "stake_report"
    /\ observation.total_nodes >= 2
    /\ pc["t2"] = "done"
    /\ pc["t1"] = "idle"
    /\ local["t1"].kind = "add_path"

(* --------------------------- claims: the history length ---------------- *)

\* C36: in every state reachable by add_path, edit and record_dance the
\* audit history has internal_audits + external_audits records, of which
\* internal_audits are Internal and external_audits are External.
C36_HistoryLength ==
    /\ Len(audits) = internal_audits + external_audits
    /\ Cardinality({i \in 1..Len(audits) : audits[i].audit_type = "Internal"})
            = internal_audits
    /\ Cardinality({i \in 1..Len(audits) : audits[i].audit_type = "External"})
            = external_audits

\* a history with records of both kinds, after an edit that was denied
C36_Witness ==
    /\ internal_audits >= 1
    /\ external_audits = 2
    /\ Len(audits) >= 3
    /\ result.op = "edit"
    /\ result.ok
    /\ ~result.success

(* --------------------------- claims: the links ------------------------- *)

\* how often a path occurs in a children list
Occurrences(children, path) ==
    Cardinality({i \in 1..Len(children) : children[i] = path})

\* C37: every path in a children list is a node whose parent is the owner of
\* the list, every node but the root occurs exactly once in its parent's
\* children list, and no children list names a path twice.
C37_LinksConsistent ==
    /\ \A p \in DOMAIN nodes : \A c \in Range(nodes[p].children) :
            /\ c \in DOMAIN nodes
            /\ nodes[c].parent = {p}
            /\ Occurrences(nodes[p].children, c) = 1
    /\ \A c \in DOMAIN nodes \ {Root} :
            /\ nodes[c].parent # {}
            /\ nodes[c].parent \subseteq DOMAIN nodes
            /\ Occurrences(nodes[The(nodes[c].parent)].children, c) = 1

(* --------------------------- claims: the ledger ------------------------ *)

\* the sum over the wallets of the change of their balances in one step
RECURSIVE BalanceChange(_)
BalanceChange(wallets) ==
    IF wallets = {} THEN 0
    ELSE LET w == CHOOSE x \in wallets : TRUE
         IN  (balance(accounts', w) - balance(accounts, w))
                 + BalanceChange(wallets \ {w})

\* C38: a transfer either succeeds, taking exactly the amount from the sender
\* and giving exactly the amount to the receiver while the sum of all
\* balances stays the same, or fails, because the sender is unknown or holds
\* less than the amount, and changes no balance; and no airdrop, transfer,
\* burn or stake leaves a balance below zero.
C38_TransferAllOrNothing ==
    [][/\ \A w \in DOMAIN accounts' : accounts'[w] >= 0
       /\ result'.op = "transfer" =>
            LET from == result'.actor
                to == result'.to
                amount == result'.amount
            IN  IF result'.ok
                THEN /\ from \in DOMAIN accounts
                     /\ accounts[from] >= amount
                     /\ BalanceChange(DOMAIN accounts') = 0
                     /\ from # to =>
                            /\ balance(accounts, from)
                                   - balance(accounts', from) = amount
                            /\ balance(accounts', to)
                                   - balance(accounts, to) = amount
                     /\ \A w \in DOMAIN accounts' \ {from, to} :
                            balance(accounts', w) = balance(accounts, w)
                ELSE /\ accounts' = accounts
                     /\ \/ from \notin DOMAIN accounts
                        \/ accounts[from] < amount]_vars

(* ----------------------- claims: the bootstrap shares ------------------ *)

\* the /home/{user} folders of the installation after the step
UserHomes ==
    {p \in DOMAIN folder_wallets' :
        Len(p) = 4 /\ SubSeq(p, 1, 3) = <<"/", "home", "/">>}

\* C39: initialize succeeds at most once, a second call failing and changing
\* nothing; once initialized, after any add_user_home calls, the root holds
\* ROOT_STAKE and is locked, the shares of the /home/{user} folders together
\* do not exceed the share of /home, and the shares of all folder wallets
\* together do not exceed 1.
C39_BootstrapShares ==
    [][/\ (initialized /\ install_result'.op = "initialize") =>
            /\ ~install_result'.ok
            /\ UNCHANGED <<folder_wallets, install_total_stake, initialized>>
       /\ initialized' =>
            /\ folder_wallets'[<<"/">>].stake_percent = ROOT_STAKE
            /\ folder_wallets'[<<"/">>].locked
            /\ RatLeq(ShareSum(folder_wallets', UserHomes),
                      folder_wallets'[<<"/", "home">>].stake_percent)
            /\ RatLeq(ShareSum(folder_wallets', DOMAIN folder_wallets'), RatOne)]_vars

(* ------------------------- claims: the bridge lock --------------------- *)

\* C40: activate changes the lock state only from AwaitingContract, to
\* Active, and unlock only from Active, to Unlocked, both leaving every
\* other state as it is; so the lock becomes Unlocked only by an unlock of
\* an Active lock, Active only by an activate of a lock awaiting its
\* contract, and AwaitingContract only by mint_nft; and neither activate nor
\* unlock takes the lock out of Revoked.
C40_LockStateMachine ==
    [][/\ bridge_result'.op = "activate" =>
            lock_state' = IF lock_state.kind = "AwaitingContract"
                          THEN Active(bridge_result'.value)
                          ELSE lock_state
       /\ bridge_result'.op = "unlock" =>
            lock_state' = IF lock_state.kind = "Active"
                          THEN Unlocked(bridge_result'.value)
                          ELSE lock_state
       /\ (lock_state' # lock_state /\ lock_state'.kind = "Unlocked") =>
            bridge_result'.op = "unlock" /\ lock_state.kind = "Active"
       /\ (lock_state' # lock_state /\ lock_state'.kind = "Active") =>
            /\ bridge_result'.op = "activate"
            /\ lock_state.kind = "AwaitingContract"
       /\ (lock_state' # lock_state
              /\ lock_state'.kind = "AwaitingContract") =>
            bridge_result'.op = "mint_nft"
       /\ (lock_state = Revoked
              /\ bridge_result'.op \in {"activate", "unlock"}) =>
            lock_state' = Revoked]_vars

\* the lock unlocked by an unlock call, after an NFT was minted
C40_Witness ==
    /\ lock_state.kind = "Unlocked"
    /\ bridge_result.op = "unlock"
    /\ Len(collection) >= 1

====
